---- MODULE Spec2Model ----
(***************************************************************************)
(* js2typings: parseCode (the export resolution engine of the parser),     *)
(* walk (the syntax dispatcher) and the documentation-type adapter.        *)
(*                                                                         *)
(* One run of parseCode is modelled: every iteration of its loop over      *)
(* program.body is one step (ParseStatement), the sweep over the member    *)
(* map that follows the loop is one step (Validate).  A JavaScript `throw` *)
(* is the field `thrown` of the context that every handler threads; once   *)
(* it is set every later handler is skipped.                               *)
(*                                                                         *)
(* Syntax-tree nodes and doctrine's trees are records with the fields the  *)
(* collaborators (esprima, doctrine) produce; a JavaScript object used as  *)
(* a dictionary is a sequence of [key, value] entries in insertion order.  *)
(***************************************************************************)
EXTENDS Integers, Sequences, FiniteSets, TLC

VARIABLES
    node,          \* the loop variable of parseCode: the statement last processed
    pos,           \* how many statements of program.body have been processed
    items,         \* theModule.items (alias exportMap)
    exports,       \* theModule.exports
    globalTypes,   \* the recognized type names
    moduleErrors,  \* theModule.errors
    actualPath,    \* walk.ts: the dispatcher's shared path stack
    status,        \* "parsing" | "returned" | "aborted" | "formatted"
    error,         \* the value thrown out of parseCode, NoError when none
    options,       \* the options format was called with
    output,        \* what format wrote, and the value thrown out of it
    run,           \* how many times the process has called parseCode
    program,       \* program.body as far as the loop has got, when recorded
    retained,      \* the globalTypes array the call before this one left behind
    tree,          \* a type expression of a documentation tag, as doctrine gives it
    typeNames,     \* what parseJsDocType made of it: the names, or the value thrown
    matched,       \* what matchType made of the names
    rendered,      \* what formatType made of the Types
    stage          \* how far the type expression has got: "idle" when none is followed

\* the variables of a type expression followed on its own
typeVars == <<tree, typeNames, matched, rendered, stage>>

\* the variables of a run of the pipeline
runVars ==
    <<node, pos, items, exports, globalTypes, moduleErrors, actualPath, status, error,
      options, output, run, program, retained>>

vars == <<runVars, typeVars>>

-----------------------------------------------------------------------------
(* JavaScript values *)

\* null / undefined where a node, a declaration or a comment is expected
Null == [type |-> "null"]

IsNull(v) == v.type = "null"

\* null where a string is expected (Type.namespace)
null == "<null>"

\* undefined where a string is expected (description)
undefined == "<undefined>"

NoError == [name |-> "none", type |-> "", path |-> <<>>, callStack |-> <<>>]

\* a JavaScript object used as a dictionary: entries in insertion order
Has(obj, key) == \E i \in 1..Len(obj) : obj[i].key = key

Get(obj, key) == obj[CHOOSE i \in 1..Len(obj) : obj[i].key = key].value

Put(obj, key, value) ==
    IF Has(obj, key)
    THEN [i \in 1..Len(obj) |-> IF obj[i].key = key THEN [key |-> key, value |-> value] ELSE obj[i]]
    ELSE Append(obj, [key |-> key, value |-> value])

Keys(obj) == [i \in 1..Len(obj) |-> obj[i].key]

RECURSIVE Flatten(_)
Flatten(seqs) == IF seqs = <<>> THEN <<>> ELSE Head(seqs) \o Flatten(Tail(seqs))

Last(s) == s[Len(s)]

Front(s) == SubSeq(s, 1, Len(s) - 1)

-----------------------------------------------------------------------------
(* The declaration model *)

Type(namespace, name) == [namespace |-> namespace, name |-> name, parameters |-> <<>>]

ExportError(message) == [message |-> message]

VariableDeclaration(types) ==
    [type |-> "variable", exported |-> FALSE, description |-> undefined, errors |-> <<>>,
     types |-> types]

IdentifierDeclaration(localName) ==
    [type |-> "identifier", exported |-> FALSE, description |-> undefined, errors |-> <<>>,
     localName |-> localName]

ConstDeclaration(value) ==
    [type |-> "constant", exported |-> FALSE, description |-> undefined, errors |-> <<>>,
     value |-> value]

TypeDefDeclaration(types) ==
    [type |-> "typedef", exported |-> FALSE, description |-> undefined, errors |-> <<>>,
     types |-> types]

ImportDeclaration(module, local) ==
    [type |-> "import", exported |-> FALSE, description |-> undefined, errors |-> <<>>,
     module |-> module, local |-> local]

NewInstanceDeclaration(instanceType) ==
    [type |-> "newInstance", exported |-> FALSE, description |-> undefined, errors |-> <<>>,
     instanceType |-> instanceType, params |-> <<>>]

ObjectDeclaration(members) ==
    [type |-> "object", exported |-> FALSE, description |-> undefined, errors |-> <<>>,
     members |-> members]

ClassDeclaration ==
    [type |-> "class", exported |-> FALSE, description |-> undefined, errors |-> <<>>,
     ctor |-> Null, members |-> <<>>]

FunctionDeclaration ==
    [type |-> "function", exported |-> FALSE, description |-> undefined, errors |-> <<>>,
     params |-> <<>>, result |-> <<>>]

\* the value of an empty object literal, `{}`
EmptyObject == [typeof |-> "object", text |-> "{}", elements |-> <<>>]

\* the value of an array literal: node.elements.map(e => e.value)
ArrayValue(elements) == [typeof |-> "object", text |-> "[]", elements |-> elements]

-----------------------------------------------------------------------------
(* The context threaded through the handlers *)

Threw(ctx) == ctx.thrown.name # "none"

Throw(ctx, err) == IF Threw(ctx) THEN ctx ELSE [ctx EXCEPT !.thrown = err]

Return(ctx, value) == [ctx EXCEPT !.ret = value]

\* reading a property of null or undefined
TypeError == [name |-> "TypeError", type |-> "", path |-> <<>>, callStack |-> <<>>]

\* throw "Not implemented" / throw "Not Implemented"
NotImplemented == [name |-> "NotImplemented", type |-> "", path |-> <<>>, callStack |-> <<>>]

\* throw "ENOTSUPP: " + type.type
UnsupportedTypeGrammar(tag) ==
    [name |-> "UnsupportedTypeGrammar", type |-> tag, path |-> <<>>, callStack |-> <<>>]

-----------------------------------------------------------------------------
(* walk.ts: the syntax dispatcher *)

\* actualPath.push(node.type)
PushPath(ctx, kind) == [ctx EXCEPT !.actualPath = Append(@, kind)]

\* finally { actualPath.pop(); } : runs on return and on throw alike
PopPathNotOnThrow(ctx) ==
    IF Threw(ctx) THEN ctx
    ELSE [ctx EXCEPT !.actualPath = IF @ = <<>> THEN <<>> ELSE Front(@)]

PopPath(ctx) == [ctx EXCEPT !.actualPath = IF @ = <<>> THEN <<>> ELSE Front(@)]

\* throw Error(`Unexpected node type: ${node.type}. Actual path is: ${actualPath.join(' -> ')}`)
UnexpectedNodePathBeforePush(ctx, kind) ==
    Throw(ctx, [name |-> "UnhandledNodeKind", type |-> kind,
                path |-> Front(ctx.actualPath), callStack |-> ctx.callStack])

UnexpectedNode(ctx, kind) ==
    Throw(ctx, [name |-> "UnhandledNodeKind", type |-> kind,
                path |-> ctx.actualPath, callStack |-> ctx.callStack])

\* the context inside walk's try block: node.type pushed.  callStack is the
\* chain of walk activations in progress (the JavaScript call stack).
entered(ctx, nd) == [PushPath(ctx, nd.type) EXCEPT !.callStack = Append(@, nd.type)]

\* walk(node, path): `kinds` are the keys of the mapping `path`; `handled` is
\* what the handler path[nd.type] makes of entered(ctx, nd), and is read only
\* when the mapping has that handler.
walk(ctx, nd, kinds, handled) ==
    IF Threw(ctx) THEN ctx
    ELSE IF IsNull(nd) THEN Throw(ctx, TypeError)
    ELSE LET after == IF nd.type \in kinds THEN handled
                      ELSE UnexpectedNode(entered(ctx, nd), nd.type)
         IN  [PopPath(after) EXCEPT !.callStack = ctx.callStack]

-----------------------------------------------------------------------------
(* The documentation-type adapter *)

\* parseJsDocType: [thrown, names]
RECURSIVE parseJsDocType(_)
RECURSIVE parseJsDocTypes(_)

\* a union that stands for its first member alone
parseJsDocTypesFirstOnly(elements) ==
    IF elements = <<>> THEN [thrown |-> NoError, names |-> <<>>]
    ELSE parseJsDocType(Head(elements))

\* elements.map(element => parseJsDocType(element)): the first element that
\* throws ends the map
parseJsDocTypes(elements) ==
    IF elements = <<>> THEN [thrown |-> NoError, names |-> <<>>]
    ELSE LET first == parseJsDocType(Head(elements))
         IN  IF first.thrown.name # "none" THEN first
             ELSE LET rest == parseJsDocTypes(Tail(elements))
                  IN  IF rest.thrown.name # "none" THEN rest
                      ELSE [thrown |-> NoError, names |-> first.names \o rest.names]

\* a reading of the grammar that takes `any` for what it does not support
parseJsDocTypeFallback(type) ==
    IF IsNull(type) THEN [thrown |-> TypeError, names |-> <<>>]
    ELSE IF type.type = "UnionType" THEN parseJsDocTypes(type.elements)
    ELSE IF type.type = "NameExpression" THEN [thrown |-> NoError, names |-> <<type.name>>]
    ELSE [thrown |-> NoError, names |-> << <<"any">> >>]

parseJsDocType(type) ==
    IF IsNull(type) THEN [thrown |-> TypeError, names |-> <<>>]
    ELSE IF type.type = "UnionType" THEN parseJsDocTypes(type.elements)
    ELSE IF type.type = "NameExpression" THEN [thrown |-> NoError, names |-> <<type.name>>]
    ELSE [thrown |-> UnsupportedTypeGrammar(type.type), names |-> <<>>]

\* const typeMapping = { 'Array': 'any[]' }
typeMapping == << [key |-> "Array", value |-> "any[]"] >>

\* matchType: a documented name is the sequence of its parts around ':'
matchType(jsTypes) ==
    [types |-> [i \in 1..Len(jsTypes) |->
                    LET parts == jsTypes[i]
                        part1 == parts[1]
                        hasPart2 == Len(parts) >= 2 /\ parts[2] # ""
                        name0 == IF hasPart2 THEN parts[2] ELSE part1
                    IN  [namespace |-> IF hasPart2 THEN part1 ELSE null,
                         name |-> IF Has(typeMapping, name0) THEN Get(typeMapping, name0) ELSE name0,
                         parameters |-> <<>>]],
     errors |-> <<>>]

\* parseJsDoc: doctrine's tree of the comment, { tags: [] } when there is no comment
parseJsDoc(comments) ==
    IF IsNull(comments) THEN [type |-> "jsdoc", description |-> undefined, tags |-> <<>>]
    ELSE comments

\* getObjectPath: the dotted path is the sequence of its segments
\* `${object}.${property}`
joined(object, p) == IF Threw(p) THEN p ELSE Return(p, object \o p.ret)

RECURSIVE getObjectPath(_, _)

\* the MemberExpression handler, after getObjectPath(node.object) gave `o`
objectPathProperty(o, property) == joined(o.ret, getObjectPath(o, property))

getObjectPath(ctx, nd) ==
    walk(ctx, nd, {"Identifier", "MemberExpression"},
         IF nd.type = "Identifier" THEN Return(entered(ctx, nd), <<nd.name>>)
         ELSE objectPathProperty(getObjectPath(entered(ctx, nd), nd.object), nd.property))

-----------------------------------------------------------------------------
(* parseCode: the declaration builders *)

isReturnStatement(nd) == nd.type = "ReturnStatement"

TagsTitled(jsdoc, title) == SelectSeq(jsdoc.tags, LAMBDA tag : tag.title = title)

\* _.keyBy(param, tag => tag.name)[name]: the last tag of that name as << tag >>,
\* << >> when there is none
jsdocParam(param, name) ==
    IF \E i \in 1..Len(param) : param[i].name = name
    THEN << param[CHOOSE i \in 1..Len(param) :
                     /\ param[i].name = name
                     /\ \A j \in (i+1)..Len(param) : param[j].name # name] >>
    ELSE <<>>

\* the loop over body.body of getFunctionExport; ctx.ret is `exported`
RECURSIVE returnStatements(_, _, _)
returnStatements(ctx, statements, returns) ==
    IF Threw(ctx) \/ statements = <<>> THEN ctx
    ELSE IF ~isReturnStatement(Head(statements))
         THEN returnStatements(ctx, Tail(statements), returns)
    ELSE IF returns # <<>>
         THEN LET parsed == parseJsDocTypes([i \in 1..Len(returns) |-> returns[i].type])
                  match == matchType(parsed.names)
              IN  IF parsed.thrown.name # "none" THEN Throw(ctx, parsed.thrown)
                  ELSE returnStatements(
                           [ctx EXCEPT !.ret.result = match.types,
                                       !.ret.errors = @ \o [i \in 1..Len(match.errors) |->
                                                               ExportError(match.errors[i])]],
                           Tail(statements), returns)
    ELSE returnStatements(
             [ctx EXCEPT !.ret.result = << Type(null, "any") >>,
                         !.ret.errors = Append(@, ExportError(<<"return type is not specified">>))],
             Tail(statements), returns)

\* the else-branch of params.map: no @param tag with a type for `name`
undocumentedParamNoDiagnostic(ctx, name, tag) ==
    [ctx EXCEPT !.ret.params = Append(@,
                    [name |-> name, types |-> << Type(null, "any") >>,
                     description |-> IF tag = <<>> THEN undefined ELSE tag[1].description,
                     errors |-> <<>>])]

undocumentedParam(ctx, name, tag) ==
    [ctx EXCEPT !.ret.params = Append(@,
                    [name |-> name, types |-> << Type(null, "any") >>,
                     description |-> IF tag = <<>> THEN undefined ELSE tag[1].description,
                     errors |-> <<>>]),
                !.ret.errors = Append(@, ExportError(
                    <<"parameter", name, "type is not specified">>))]

\* the then-branch of params.map: the types of the matching @param tag
documentedParam(ctx, name, tag, match) ==
    [ctx EXCEPT !.ret.params = Append(@,
                    [name |-> name, types |-> match.types,
                     description |-> tag[1].description, errors |-> <<>>]),
                !.errors = @ \o [i \in 1..Len(match.errors) |-> ExportError(match.errors[i])]]

\* exported.params = params.map(p => ...); ctx.ret is `exported`
RECURSIVE functionParams(_, _, _)
functionParams(ctx, params, param) ==
    IF Threw(ctx) \/ params = <<>> THEN ctx
    ELSE LET name == Head(params).name
             tag == jsdocParam(param, name)
         IN  IF tag # <<>> /\ ~IsNull(tag[1].type)
             THEN LET parsed == parseJsDocType(tag[1].type)
                  IN  IF parsed.thrown.name # "none" THEN Throw(ctx, parsed.thrown)
                      ELSE functionParams(
                               documentedParam(ctx, name, tag, matchType(parsed.names)),
                               Tail(params), param)
             ELSE functionParams(undocumentedParam(ctx, name, tag), Tail(params), param)

\* e.description = jsdoc.description, on the declaration a builder returns
described(e, jsdoc) ==
    IF Threw(e) THEN e ELSE [e EXCEPT !.ret.description = jsdoc.description]

\* let exported = new FunctionDeclaration(); exported.result = [new Type(null, 'void')]
newFunctionExport(ctx) ==
    Return(ctx, [FunctionDeclaration EXCEPT !.result = << Type(null, "void") >>])

\* walk(body, { BlockStatement: ... }); ctx.ret is `exported`
functionBody(ctx, body, returns) ==
    walk(ctx, body, {"BlockStatement"},
         returnStatements(entered(ctx, body), body.body, returns))

getFunctionExport(ctx, fn, comments) ==
    IF Threw(ctx) THEN ctx
    ELSE described(
             functionParams(
                 functionBody(newFunctionExport(ctx), fn.body,
                              TagsTitled(parseJsDoc(comments), "return")),
                 fn.params, TagsTitled(parseJsDoc(comments), "param")),
             parseJsDoc(comments))

RECURSIVE getExport(_, _, _)
RECURSIVE objectProperties(_, _, _)
RECURSIVE objectProperty(_, _, _)

\* _.reduce(node.properties, (prev, current) => _.assign(prev, { [key]: getExport(value, null) }), {})
objectProperties(ctx, properties, prev) ==
    IF Threw(ctx) THEN ctx
    ELSE IF properties = <<>> THEN Return(ctx, prev)
    ELSE objectProperty(getExport(ctx, Head(properties).value, Null), properties, prev)

\* _.assign(prev, { [current.key.name]: e }), then the rest of the reduction
objectProperty(e, properties, prev) ==
    IF Threw(e) THEN e
    ELSE objectProperties(e, Tail(properties), Put(prev, Head(properties).key.name, e.ret))

\* new ObjectDeclaration(properties)
newObjectDeclaration(properties) ==
    IF Threw(properties) THEN properties
    ELSE Return(properties, ObjectDeclaration(properties.ret))

\* the handlers of getExport's mapping, run on c = entered(ctx, nd)
getExportHandlers(c, nd, comments) ==
    CASE nd.type = "FunctionExpression" -> getFunctionExport(c, nd, comments)
      [] nd.type = "Identifier" -> Return(c, IdentifierDeclaration(nd.name))
      [] nd.type = "ArrayExpression" ->
           Return(c, ConstDeclaration(ArrayValue(
               [i \in 1..Len(nd.elements) |-> nd.elements[i].value])))
      [] nd.type = "NewExpression" ->
           walk(c, nd.callee, {"Identifier"},
                Return(entered(c, nd.callee),
                       NewInstanceDeclaration(Type(null, nd.callee.name))))
      [] nd.type = "ObjectExpression" ->
           newObjectDeclaration(objectProperties(c, nd.properties, <<>>))
      [] nd.type = "Literal" ->
           Return(c, [ConstDeclaration(nd.value)
                         EXCEPT !.description = parseJsDoc(comments).description])
      [] nd.type = "ClassDeclaration" -> Return(c, ClassDeclaration)
      [] nd.type = "BinaryExpression" -> Return(c, ConstDeclaration(EmptyObject))
      [] nd.type = "FunctionDeclaration" -> getFunctionExport(c, nd, comments)

getExport(ctx, nd, comments) ==
    IF Threw(ctx) THEN ctx
    ELSE described(
             walk(ctx, nd,
                  {"FunctionExpression", "Identifier", "ArrayExpression", "NewExpression",
                   "ObjectExpression", "Literal", "ClassDeclaration", "BinaryExpression",
                   "FunctionDeclaration"},
                  getExportHandlers(entered(ctx, nd), nd, comments)),
             parseJsDoc(comments))

-----------------------------------------------------------------------------
(* parseCode: the loop over program.body *)

\* a scan that registers the aliases and leaves out globalTypes.push(tag.name)
RECURSIVE typedefTagsNotRecognized(_, _, _)
typedefTagsNotRecognized(ctx, jsdoc, tags) ==
    IF Threw(ctx) \/ tags = <<>> THEN ctx
    ELSE IF Head(tags).title # "typedef" THEN typedefTagsNotRecognized(ctx, jsdoc, Tail(tags))
    ELSE IF parseJsDocType(Head(tags).type).thrown.name # "none"
         THEN Throw(ctx, parseJsDocType(Head(tags).type).thrown)
    ELSE typedefTagsNotRecognized(
             [ctx EXCEPT !.items = Put(@, << Head(tags).name >>,
                 [TypeDefDeclaration(matchType(parseJsDocType(Head(tags).type).names).types)
                     EXCEPT !.description = jsdoc.description])],
             jsdoc, Tail(tags))

\* the typedef tags of one leading comment that is not attached to the code
RECURSIVE typedefTags(_, _, _)
typedefTags(ctx, jsdoc, tags) ==
    IF Threw(ctx) \/ tags = <<>> THEN ctx
    ELSE LET tag == Head(tags)
         IN  IF tag.title # "typedef" THEN typedefTags(ctx, jsdoc, Tail(tags))
             ELSE LET jsDocTypes == parseJsDocType(tag.type)
                      types == matchType(jsDocTypes.names)
                      typedef == [TypeDefDeclaration(types.types)
                                     EXCEPT !.description = jsdoc.description]
                  IN  IF jsDocTypes.thrown.name # "none" THEN Throw(ctx, jsDocTypes.thrown)
                      ELSE typedefTags(
                               [ctx EXCEPT !.items = Put(@, <<tag.name>>, typedef),
                                           !.globalTypes = Append(@, tag.name)],
                               jsdoc, Tail(tags))

\* for (let comment of lead)
RECURSIVE leadComments(_, _)
leadComments(ctx, lead) ==
    IF Threw(ctx) \/ lead = <<>> THEN ctx
    ELSE LET jsdoc == parseJsDoc(Head(lead))
         IN  leadComments(typedefTags(ctx, jsdoc, jsdoc.tags), Tail(lead))

Reverse(s) == [i \in 1..Len(s) |-> s[Len(s) + 1 - i]]

\* const [comments, ...lead] = leadingComments.map(x => x.value).reverse()
commentValues(nd) ==
    Reverse([i \in 1..Len(nd.leadingComments) |-> nd.leadingComments[i].value])

commentsOf(nd) == IF commentValues(nd) = <<>> THEN Null ELSE Head(commentValues(nd))

leadOf(nd) == IF commentValues(nd) = <<>> THEN <<>> ELSE Tail(commentValues(nd))

\* exportMap[key].exported = true
markExported(ctx, key) ==
    IF Threw(ctx) THEN ctx
    ELSE IF ~Has(ctx.items, key) THEN Throw(ctx, TypeError)
    ELSE [ctx EXCEPT !.items = Put(@, key, [Get(@, key) EXCEPT !.exported = TRUE])]

\* theModule.items[key] = <the declaration the builder returned>
setItem(e, key) == IF Threw(e) THEN e ELSE [e EXCEPT !.items = Put(@, key, e.ret)]

\* theModule.items[key] = declaration
putItem(ctx, key, declaration) == [ctx EXCEPT !.items = Put(@, key, declaration)]

\* the Literal handler of walk(argument, ...): an import of the required module
requiredModule(c, id, argument) ==
    putItem(c, <<id.name>>, ImportDeclaration(argument.value.text, undefined))

\* the Identifier handler of walk(init.callee, ...)
requireCallee(c, id, init) ==
    IF init.callee.name = "require" /\ Len(init.arguments) = 1
    THEN walk(c, init.arguments[1], {"Literal"},
              requiredModule(entered(c, init.arguments[1]), id, init.arguments[1]))
    ELSE c

\* CallExpression: (init) => walk(init.callee, { Identifier: ... })
requireCall(ctx, id, init) ==
    walk(ctx, init.callee, {"Identifier"},
         requireCallee(entered(ctx, init.callee), id, init))

\* walk(declarator.init, { FunctionExpression, Literal, CallExpression })
declaratorInit(ctx, id, init, comments) ==
    walk(ctx, init, {"FunctionExpression", "Literal", "CallExpression"},
         CASE init.type = "FunctionExpression" ->
                 setItem(getFunctionExport(entered(ctx, init), init, comments), <<id.name>>)
           [] init.type = "Literal" ->
                 setItem(getExport(entered(ctx, init), init, comments), <<id.name>>)
           [] init.type = "CallExpression" ->
                 requireCall(entered(ctx, init), id, init))

\* walk(declarator.id, { Identifier: ... })
declaratorId(ctx, declarator, comments) ==
    walk(ctx, declarator.id, {"Identifier"},
         declaratorInit(entered(ctx, declarator.id), declarator.id, declarator.init, comments))

\* node.declarations.forEach(declarator => ...)
RECURSIVE variableDeclarators(_, _, _)
variableDeclarators(ctx, declarations, comments) ==
    IF Threw(ctx) \/ declarations = <<>> THEN ctx
    ELSE variableDeclarators(declaratorId(ctx, Head(declarations), comments),
                             Tail(declarations), comments)

\* assignment.object.match(/\.prototype$/)
matchesPrototype(object) == Len(object) >= 2 /\ Last(object) = "prototype"

\* theModule.exports = getExport(right, comments)
setExports(e) == IF Threw(e) THEN e ELSE [e EXCEPT !.exports = e.ret]

\* if (!(lookup instanceof Identifier)) exportMap[assignment.property] = lookup
setUnlessIdentifier(lookup, property) ==
    IF Threw(lookup) \/ lookup.ret.type = "identifier" THEN lookup
    ELSE setItem(lookup, property)

\* a promotion that makes a fresh class and forgets the function
promotedWithoutCtor(ctx, className) ==
    IF Has(ctx.items, className) /\ Get(ctx.items, className).type = "function"
    THEN putItem(ctx, className, ClassDeclaration)
    ELSE ctx

\* if (theModule.items[className] instanceof FunctionDeclaration) { ... }
promoted(ctx, className) ==
    IF Has(ctx.items, className) /\ Get(ctx.items, className).type = "function"
    THEN putItem(ctx, className, [ClassDeclaration EXCEPT !.ctor = Get(ctx.items, className)])
    ELSE ctx

\* classDeclaration.members[assignment.property] = <the declaration the builder returned>
setMember(e, className, property) ==
    IF Threw(e) THEN e
    ELSE [e EXCEPT !.items = Put(@, className,
             [Get(@, className) EXCEPT !.members = Put(@, property, e.ret)])]

\* if (theModule.items[className] instanceof ClassDeclaration) { ... }
classMember(ctx, className, property, right, comments) ==
    IF Has(ctx.items, className) /\ Get(ctx.items, className).type = "class"
    THEN setMember(getExport(ctx, right, comments), className, property)
    ELSE ctx

\* an if-chain that registers what is assigned to any other target
assignmentRegistersOthers(ctx, object, property, right, comments) ==
    IF Threw(ctx) THEN ctx
    ELSE IF object = <<"module">> /\ property = <<"exports">>
         THEN setExports(getExport(ctx, right, comments))
    ELSE IF object = <<"exports">> \/ object = <<"module", "exports">>
         THEN markExported(setUnlessIdentifier(getExport(ctx, right, comments), property),
                           property)
    ELSE IF matchesPrototype(object)
         THEN classMember(promoted(ctx, Front(object)), Front(object), property,
                          right, comments)
    ELSE setItem(getExport(ctx, right, comments), property)

\* the if-chain on assignment.object / assignment.property
assignment(ctx, object, property, right, comments) ==
    IF Threw(ctx) THEN ctx
    ELSE IF object = <<"module">> /\ property = <<"exports">>
         THEN setExports(getExport(ctx, right, comments))
    ELSE IF object = <<"exports">> \/ object = <<"module", "exports">>
         THEN markExported(setUnlessIdentifier(getExport(ctx, right, comments), property),
                           property)
    ELSE IF matchesPrototype(object)
         THEN classMember(promoted(ctx, Front(object)), Front(object), property,
                          right, comments)
    ELSE ctx

\* let assignment = { object: null, property: null }
newAssignment(ctx) == Return(ctx, [object |-> <<>>, property |-> <<>>])

\* assignment.object = getObjectPath(object); assignment.property = getObjectPath(property)
assignmentProperty(o, p) ==
    IF Threw(p) THEN p ELSE Return(p, [object |-> o.ret, property |-> p.ret])

assignmentObject(o, left) == assignmentProperty(o, getObjectPath(o, left.property))

\* walk(left, { MemberExpression, ThisExpression })
assignmentTarget(ctx, left) ==
    walk(ctx, left, {"MemberExpression", "ThisExpression"},
         IF left.type = "ThisExpression" THEN Throw(entered(ctx, left), NotImplemented)
         ELSE assignmentObject(getObjectPath(entered(ctx, left), left.object), left))

\* the AssignmentExpression handler after walk(left, ...)
assigned(walked, right, comments) ==
    IF Threw(walked) THEN walked
    ELSE assignment(walked, walked.ret.object, walked.ret.property, right, comments)

\* ExpressionStatement: walk(expression, { Literal, AssignmentExpression, CallExpression })
expressionStatement(ctx, expression, comments) ==
    walk(ctx, expression, {"Literal", "AssignmentExpression", "CallExpression"},
         CASE expression.type = "Literal" -> entered(ctx, expression)
           [] expression.type = "CallExpression" ->
                 Throw(entered(ctx, expression), NotImplemented)
           [] expression.type = "AssignmentExpression" ->
                 assigned(assignmentTarget(newAssignment(entered(ctx, expression)),
                                           expression.left),
                          expression.right, comments))

\* one declarator of an exported variable declaration
exportedDeclarator(ctx, declarator, comments) ==
    IF ~IsNull(declarator.init)
    THEN setItem(getExport(ctx, declarator.init, comments), <<declarator.id.name>>)
    ELSE putItem(ctx, <<declarator.id.name>>, VariableDeclaration(<< Type(null, "any") >>))

\* a forEach that stops after the first declarator
exportedDeclaratorsFirstOnly(ctx, declarations, comments) ==
    IF Threw(ctx) \/ declarations = <<>> THEN ctx
    ELSE markExported(exportedDeclarator(ctx, Head(declarations), comments),
                      << Head(declarations).id.name >>)

\* variableDeclaration.declarations.forEach(...) of an ExportNamedDeclaration
RECURSIVE exportedDeclarators(_, _, _)
exportedDeclarators(ctx, declarations, comments) ==
    IF Threw(ctx) \/ declarations = <<>> THEN ctx
    ELSE exportedDeclarators(
             markExported(exportedDeclarator(ctx, Head(declarations), comments),
                          << Head(declarations).id.name >>),
             Tail(declarations), comments)

\* the ExportSpecifier handler
exportSpecifier(c, specifier, source) ==
    IF ~IsNull(source)
    THEN putItem(c, <<specifier.exported.name>>,
             [ImportDeclaration(source.value.text, specifier.local.name)
                 EXCEPT !.exported = TRUE])
    ELSE putItem(c, <<specifier.exported.name>>,
             [VariableDeclaration(<< Type(null, "any") >>) EXCEPT !.exported = TRUE])

\* declaration.specifiers.forEach(specifier => walk(specifier, { ExportSpecifier: ... }))
RECURSIVE exportSpecifiers(_, _, _)
exportSpecifiers(ctx, specifiers, source) ==
    IF Threw(ctx) \/ specifiers = <<>> THEN ctx
    ELSE exportSpecifiers(
             walk(ctx, Head(specifiers), {"ExportSpecifier"},
                  exportSpecifier(entered(ctx, Head(specifiers)), Head(specifiers), source)),
             Tail(specifiers), source)

\* walk(declaration.declaration, { VariableDeclaration, FunctionDeclaration })
exportedDeclaration(ctx, declared, comments) ==
    walk(ctx, declared, {"VariableDeclaration", "FunctionDeclaration"},
         IF declared.type = "VariableDeclaration"
         THEN exportedDeclarators(entered(ctx, declared), declared.declarations, comments)
         ELSE markExported(
                  setItem(getFunctionExport(entered(ctx, declared), declared, comments),
                          <<declared.id.name>>),
                  <<declared.id.name>>))

exportNamedDeclaration(ctx, declaration, comments) ==
    exportSpecifiers(
        IF ~IsNull(declaration.declaration)
        THEN exportedDeclaration(ctx, declaration.declaration, comments)
        ELSE ctx,
        declaration.specifiers, declaration.source)

\* a registration under `default` that leaves out e.exported = true
setDefaultNotExported(e) ==
    IF Threw(e) THEN e ELSE [e EXCEPT !.items = Put(@, <<"default">>, e.ret)]

\* e.exported = true; exportMap['default'] = e
setDefault(e) ==
    IF Threw(e) THEN e
    ELSE [e EXCEPT !.items = Put(@, <<"default">>, [e.ret EXCEPT !.exported = TRUE])]

\* the handlers of the mapping parseCode walks each statement with
statementHandlers(c, nd, comments) ==
    CASE nd.type = "VariableDeclaration" ->
            variableDeclarators(c, nd.declarations, comments)
      [] nd.type = "FunctionDeclaration" ->
            setItem(getFunctionExport(c, nd, comments), <<nd.id.name>>)
      [] nd.type = "ExpressionStatement" ->
            expressionStatement(c, nd.expression, comments)
      [] nd.type = "ExportNamedDeclaration" ->
            exportNamedDeclaration(c, nd, comments)
      [] nd.type = "ExportDefaultDeclaration" ->
            setDefault(getExport(c, nd.declaration, comments))
      [] nd.type = "ExportAllDeclaration" ->
            putItem(c, <<"*">>,
                [ImportDeclaration(nd.source.value.text, "*") EXCEPT !.exported = TRUE])

\* walk(node, { VariableDeclaration, FunctionDeclaration, ExpressionStatement,
\*              ExportNamedDeclaration, ExportDefaultDeclaration, ExportAllDeclaration })
statement(ctx, nd, comments) ==
    walk(ctx, nd,
         {"VariableDeclaration", "FunctionDeclaration", "ExpressionStatement",
          "ExportNamedDeclaration", "ExportDefaultDeclaration", "ExportAllDeclaration"},
         statementHandlers(entered(ctx, nd), nd, comments))

\* one iteration of `for (var node of program.body)`
iteration(ctx, nd) == statement(leadComments(ctx, leadOf(nd)), nd, commentsOf(nd))

-----------------------------------------------------------------------------
(* parseCode: the sweep over the member map after the loop *)

\* a lookup that trusts namespaced types
isRecognizedOrNamespaced(type, recognized) ==
    \/ type.namespace # null
    \/ \E i \in 1..Len(recognized) : recognized[i] = type.name

\* type.namespace == null && globalTypes.indexOf(type.name) >= 0
isRecognized(type, recognized) ==
    /\ type.namespace = null
    /\ \E i \in 1..Len(recognized) : recognized[i] = type.name

\* a rewrite that forgets to clear the namespace
sweptTypesKeepNamespace(types, recognized) ==
    [i \in 1..Len(types) |->
        IF isRecognized(types[i], recognized) THEN types[i]
        ELSE [types[i] EXCEPT !.name = "any"]]

\* the types of one list after the sweep
sweptTypes(types, recognized) ==
    [i \in 1..Len(types) |->
        IF isRecognized(types[i], recognized) THEN types[i]
        ELSE [types[i] EXCEPT !.name = "any", !.namespace = null]]

\* the names the sweep did not find, in list order
notFound(types, recognized) ==
    LET missing == SelectSeq(types, LAMBDA type : ~isRecognized(type, recognized))
    IN  [i \in 1..Len(missing) |-> missing[i].name]

sweptParams(params, recognized) ==
    [i \in 1..Len(params) |-> [params[i] EXCEPT !.types = sweptTypes(@, recognized)]]

paramErrors(params, recognized) ==
    Flatten([i \in 1..Len(params) |->
        LET names == notFound(params[i].types, recognized)
        IN  [j \in 1..Len(names) |-> ExportError(
                <<"Parameter", params[i].name, "type", names[j], "was not found">>)]])

\* a callback that deletes an alias of a name that is no member
sweepMemberDropsAlias(map, key, recognized) ==
    IF Get(map, key).type = "identifier" /\ ~Has(map, << Get(map, key).localName >>)
    THEN SelectSeq(map, LAMBDA member : member.key # key)
    ELSE map

\* a callback that replaces every alias, resolved or not
sweepMemberEveryAlias(map, key, recognized) ==
    LET e == Get(map, key)
    IN  IF e.type = "variable"
        THEN LET names == notFound(e.types, recognized)
             IN  Put(map, key, [e EXCEPT
                     !.types = sweptTypes(@, recognized),
                     !.errors = @ \o [j \in 1..Len(names) |-> ExportError(
                                         <<"Type", names[j], "was not found">>)]])
        ELSE IF e.type = "function"
        THEN LET names == notFound(e.result, recognized)
             IN  Put(map, key, [e EXCEPT
                     !.params = sweptParams(@, recognized),
                     !.result = sweptTypes(@, recognized),
                     !.errors = @ \o paramErrors(e.params, recognized)
                                  \o [j \in 1..Len(names) |-> ExportError(
                                         <<"Result type", names[j], "was not found">>)]])
        ELSE IF e.type = "identifier"
        THEN Put(map, key, ConstDeclaration(EmptyObject))
        ELSE map

\* the callback of _.map(exportMap, (e, key) => ...) for one key
sweepMember(map, key, recognized) ==
    LET e == Get(map, key)
    IN  IF e.type = "variable"
        THEN LET names == notFound(e.types, recognized)
             IN  Put(map, key, [e EXCEPT
                     !.types = sweptTypes(@, recognized),
                     !.errors = @ \o [j \in 1..Len(names) |-> ExportError(
                                         <<"Type", names[j], "was not found">>)]])
        ELSE IF e.type = "function"
        THEN LET names == notFound(e.result, recognized)
             IN  Put(map, key, [e EXCEPT
                     !.params = sweptParams(@, recognized),
                     !.result = sweptTypes(@, recognized),
                     !.errors = @ \o paramErrors(e.params, recognized)
                                  \o [j \in 1..Len(names) |-> ExportError(
                                         <<"Result type", names[j], "was not found">>)]])
        ELSE IF e.type = "identifier"
        THEN IF ~Has(map, <<e.localName>>)
             THEN Put(map, key, ConstDeclaration(EmptyObject))
             ELSE map
        ELSE map

\* _.map(exportMap, ...): the keys are those the map has when the sweep starts
RECURSIVE sweep(_, _, _)
sweep(map, keys, recognized) ==
    IF keys = <<>> THEN map
    ELSE sweep(sweepMember(map, Head(keys), recognized), Tail(keys), recognized)

-----------------------------------------------------------------------------
(* writer.ts: the emitter.  The text is the sequence of the calls made on   *)
(* the CodeBlockWriter, each with the pieces of its template string; the   *)
(* colors are those of NoColors (options.colors = false), the identity.    *)

\* Error(`Declaration type not supported: ${DeclarationType[part.type]}`)
NotSupported(type) ==
    [name |-> "DeclarationTypeNotSupported", type |-> type, path |-> <<>>, callStack |-> <<>>]

\* writer.write(text)
write(out, text) ==
    IF Threw(out) THEN out ELSE [out EXCEPT !.text = Append(@, [op |-> "write", text |-> text])]

\* writer.writeLine(text)
writeLine(out, text) ==
    IF Threw(out) THEN out
    ELSE [out EXCEPT !.text = Append(@, [op |-> "writeLine", text |-> text])]

\* writer.block(() => { ... }): the opening and the closing of the block
blockStart(out) ==
    IF Threw(out) THEN out ELSE [out EXCEPT !.text = Append(@, [op |-> "block", text |-> <<>>])]

blockEnd(out) ==
    IF Threw(out) THEN out
    ELSE [out EXCEPT !.text = Append(@, [op |-> "endBlock", text |-> <<>>])]

\* array.join(separator), on lists of pieces
RECURSIVE join(_, _)
join(texts, separator) ==
    IF texts = <<>> THEN <<>>
    ELSE IF Len(texts) = 1 THEN texts[1]
    ELSE texts[1] \o << separator >> \o join(Tail(texts), separator)

\* a member name as text: the segments of its path around '.'
dotted(name) == join([i \in 1..Len(name) |-> << name[i] >>], ".")

\* guestType
guestType(value) ==
    IF value.typeof = "number" THEN "number"
    ELSE IF value.typeof = "string" THEN "string"
    ELSE "any"

\* JSON.stringify(value): a string in quotes, a number, {} or [...]
RECURSIVE stringify(_)
stringify(value) ==
    IF value.typeof = "string" THEN << "\"", value.text, "\"" >>
    ELSE IF value.typeof = "number" THEN << value.text >>
    ELSE IF value.text = "[]"
         THEN << "[" >> \o join([i \in 1..Len(value.elements) |-> stringify(value.elements[i])], ",")
                     \o << "]" >>
    ELSE << "{}" >>

\* jsdocComment
jsdocComment(out, text) ==
    writeLine(out, << "/**" >> \o Flatten([i \in 1..Len(text) |-> << "\n * ", text[i] >>])
                             \o << "\n */" >>)

\* the lines jsdoc collects: the description, then an empty line and the tags
jsdocLines(description, tags) ==
    (IF description # undefined /\ description # "" THEN << description >> ELSE <<>>)
        \o (IF tags # <<>> THEN << "" >> \o tags ELSE <<>>)

\* jsdoc
jsdoc(out, description, tags) ==
    IF jsdocLines(description, tags) # <<>>
    THEN jsdocComment(out, jsdocLines(description, tags))
    ELSE out

\* formatType of a list that is there: the names joined by ' | ' (a Type the
\* parser builds has no parameters)
formatType(types) == join([i \in 1..Len(types) |-> << types[i].name >>], " | ")

\* formatType of a list that is missing
formatTypeMissing == << "void" >>

\* params.map(param => `${param.name}: ${formatType(param.types)}`).join(', ')
formatParams(params) ==
    join([i \in 1..Len(params) |-> << params[i].name, ": " >> \o formatType(params[i].types)],
         ", ")

\* `${part.exported ? 'export ' : ''}` as the head of a template string
exportWord(part) == IF part.exported THEN << "export " >> ELSE <<>>

\* if (part.exported) this.writer.write('export ')
exportWritten(out, part) == IF part.exported THEN write(out, << "export " >>) ELSE out

\* ObjectMembersFormatter: variable, function, constant
objectMember(out, name, part) ==
    CASE part.type = "variable" -> writeLine(out, << name, ": any" >>)
      [] part.type = "function" ->
            blockEnd(blockStart(write(out, << name, ": function() : any" >>)))
      [] part.type = "constant" -> writeLine(out, << name, ": " >> \o stringify(part.value))
      [] OTHER -> Throw(out, NotSupported(part.type))

\* _.forEach(part.members, ...) of ModuleMembersFormatter.object
RECURSIVE objectMembers(_, _)
objectMembers(out, members) ==
    IF Threw(out) \/ members = <<>> THEN out
    ELSE objectMembers(objectMember(out, Head(members).key, Head(members).value),
                       Tail(members))

\* ModuleMembersFormatter.variable
membersVariable(out, name, part) ==
    write(exportWritten(out, part),
          IF name # <<"default">>
          THEN << "var " >> \o dotted(name) \o << ": " >> \o formatType(part.types) \o << ";" >>
          ELSE dotted(name) \o << " {};" >>)

\* ModuleExportsFormatter.variable: it formats the global `exports` of the
\* writer module, which has neither `exported` nor `types`, under __module__
exportsVariable(out, name, part) ==
    writeLine(write(out, << "var ", "__module__", ": " >> \o formatTypeMissing \o << ";" >>),
              << "export = ", "__module__", ";" >>)

\* if (part.ctor != null && part.ctor.params.length > 0) writeLine(`constructor (...)`)
classCtor(out, part) ==
    IF ~IsNull(part.ctor) /\ Len(part.ctor.params) > 0
    THEN writeLine(out, << "constructor (" >> \o formatParams(part.ctor.params) \o << ");" >>)
    ELSE out

\* the callback of _.forEach(part.members, ...) of ModuleMembersFormatter.class;
\* this.variable is the method of the formatter in use
formattedMember(out, name, member, formatter) ==
    IF member.type = "variable"
    THEN IF formatter = "exports" THEN exportsVariable(out, name, member)
         ELSE membersVariable(out, name, member)
    ELSE IF member.type = "function"
    THEN writeLine(out, << "public " >> \o dotted(name) \o << " (" >>
                        \o formatParams(member.params) \o << ") : " >>
                        \o formatType(member.result) \o << ";" >>)
    ELSE out

RECURSIVE classMembers(_, _, _)
classMembers(out, members, formatter) ==
    IF Threw(out) \/ members = <<>> THEN out
    ELSE classMembers(formattedMember(out, Head(members).key, Head(members).value, formatter),
                      Tail(members), formatter)

\* ModuleMembersFormatter.class
membersClass(out, name, part, formatter) ==
    blockEnd(classMembers(
        classCtor(blockStart(write(out,
            exportWord(part) \o (IF name = <<"default">> THEN << "default class" >>
                                 ELSE << "class " >> \o dotted(name)))), part),
        part.members, formatter))

\* the @param tags of the parameters that have a description
paramTags(params) ==
    Flatten([i \in 1..Len(params) |->
        IF params[i].description # undefined /\ params[i].description # ""
        THEN << "@param " \o params[i].name \o " " \o params[i].description >>
        ELSE <<>>])

\* ModuleMembersFormatter.function
membersFunction(out, name, part) ==
    writeLine(jsdoc(out, part.description, paramTags(part.params)),
              IF name = <<"default">>
              THEN exportWord(part) \o dotted(name) \o << " function (" >>
                       \o formatParams(part.params) \o << ") : " >>
                       \o formatType(part.result) \o << ";" >>
              ELSE exportWord(part) \o << "function " >> \o dotted(name) \o << " (" >>
                       \o formatParams(part.params) \o << ") : " >>
                       \o formatType(part.result) \o << ";" >>)

\* ModuleMembersFormatter.constant
membersConstant(out, name, part) ==
    write(exportWritten(jsdoc(out, part.description, <<>>), part),
          IF name = <<"default">>
          THEN << "default " >> \o stringify(part.value) \o << ";" >>
          ELSE << "var " >> \o dotted(name) \o << ": ", guestType(part.value), ";" >>)

\* ModuleMembersFormatter.import
membersImport(out, name, part) ==
    write(out,
          IF name = << part.local >>
          THEN IF name = <<"*">>
               THEN exportWord(part) \o dotted(name) \o << " from \"", part.module, "\";" >>
               ELSE exportWord(part) \o << " { " >> \o dotted(name)
                        \o << " } from \"", part.module, "\";" >>
          ELSE exportWord(part) \o << " { ", part.local, " as " >> \o dotted(name)
                   \o << " } from \"", part.module, "\";" >>)

\* ModuleMembersFormatter.identifier
membersIdentifier(out, name, part) ==
    writeLine(out,
              IF name = <<"default">>
              THEN exportWord(part) \o dotted(name) \o << " ", part.localName, ";" >>
              ELSE exportWord(part) \o dotted(name) \o << "  = ", part.localName, ";" >>)

\* ModuleExportsFormatter.identifier
exportsIdentifier(out, name, part) == writeLine(out, << "export = ", part.localName, ";" >>)

\* ModuleMembersFormatter.object
membersObject(out, name, part) ==
    IF name = <<"default">>
    THEN blockEnd(objectMembers(blockStart(write(exportWritten(out, part), << "default " >>)),
                                part.members))
    ELSE write(exportWritten(out, part), << "var " >> \o dotted(name) \o << ": any" >>)

\* ModuleMembersFormatter.typedef
membersTypedef(out, name, part) ==
    write(jsdoc(out, part.description, <<>>),
          << "type " >> \o dotted(name) \o << " = " >> \o formatType(part.types) \o << ";" >>)

\* this.moduleMembers[DeclarationType[part.type]], applied to (name, part)
moduleMember(out, name, part) ==
    CASE part.type = "variable" -> membersVariable(out, name, part)
      [] part.type = "class" -> membersClass(out, name, part, "members")
      [] part.type = "function" -> membersFunction(out, name, part)
      [] part.type = "constant" -> membersConstant(out, name, part)
      [] part.type = "import" -> membersImport(out, name, part)
      [] part.type = "identifier" -> membersIdentifier(out, name, part)
      [] part.type = "object" -> membersObject(out, name, part)
      [] part.type = "typedef" -> membersTypedef(out, name, part)
      [] OTHER -> Throw(out, NotSupported(part.type))

\* the members of an object literal, as the members of a class
asClassMembers(members) ==
    [i \in 1..Len(members) |-> [key |-> << members[i].key >>, value |-> members[i].value]]

\* ModuleExportsFormatter.object
exportsObject(out, name, part) ==
    exportsIdentifier(
        membersVariable(
            membersClass(out, <<"__module__">>,
                         [ClassDeclaration EXCEPT !.members = asClassMembers(part.members)],
                         "exports"),
            <<"__module__static__">>,
            VariableDeclaration(<< Type(null, "__module__") >>)),
        Null, IdentifierDeclaration("__module__static__"))

\* this.moduleExports[DeclarationType[part.exports.type]], applied to (name, part.exports)
moduleExport(out, name, part) ==
    CASE part.type = "variable" -> exportsVariable(out, name, part)
      [] part.type = "newInstance" ->
            writeLine(out, << "export = new " >> \o formatType(<< part.instanceType >>)
                               \o << " (" >> \o join([i \in 1..Len(part.params) |->
                                                         stringify(part.params[i])], ", ")
                               \o << ");" >>)
      [] part.type = "identifier" -> exportsIdentifier(out, name, part)
      [] part.type = "function" ->
            writeLine(membersFunction(out, <<"__module__">>, part),
                      << "export = ", "__module__", ";" >>)
      [] part.type = "constant" ->
            write(out, << "export = " >> \o stringify(part.value) \o << ";" >>)
      [] part.type = "object" -> exportsObject(out, name, part)
      [] part.type = "class" -> membersClass(out, name, part, "exports")
      [] part.type = "import" -> membersImport(out, name, part)
      [] part.type = "typedef" -> membersTypedef(out, name, part)
      [] OTHER -> Throw(out, NotSupported(part.type))

\* for (const error of part.errors) writeLine('// WARN: ' + error.message)
RECURSIVE warningLines(_, _)
warningLines(out, errors) ==
    IF Threw(out) \/ errors = <<>> THEN out
    ELSE warningLines(writeLine(out, << "// WARN: " >> \o Head(errors).message), Tail(errors))

\* if (this.warnings && part.errors && part.errors.length > 0) { ... }
warned(out, part, warnings) == IF warnings THEN warningLines(out, part.errors) ELSE out

\* the callback of _.forEach(part.items, ...) of RootFormatter.module
rootItem(out, name, part, warnings) ==
    warned(moduleMember(writeLine(out, << "\n" >>), name, part), part, warnings)

\* a loop over part.items that starts from the member registered last
RECURSIVE rootItemsLastFirst(_, _, _)
rootItemsLastFirst(out, members, warnings) ==
    IF Threw(out) \/ members = <<>> THEN out
    ELSE rootItemsLastFirst(rootItem(out, Last(members).key, Last(members).value, warnings),
                            Front(members), warnings)

RECURSIVE rootItems(_, _, _)
rootItems(out, members, warnings) ==
    IF Threw(out) \/ members = <<>> THEN out
    ELSE rootItems(rootItem(out, Head(members).key, Head(members).value, warnings),
                   Tail(members), warnings)

\* if (part.exports) { ... }
rootExports(out, name, part) ==
    IF Threw(out) \/ IsNull(part) THEN out ELSE moduleExport(out, name, part)

\* RootFormatter.module
rootModule(out, name, part, warnings) ==
    blockEnd(rootExports(
        rootItems(blockStart(write(out, << "declare module \"", name, "\"" >>)),
                  part.items, warnings),
        name, part.exports))

\* format: one module, named as parseCode was told
format(exportMap, option) ==
    rootModule([thrown |-> NoError, text |-> <<>>], exportMap.name, exportMap.module,
               option.warnings)

-----------------------------------------------------------------------------
(* The sources read: syntax trees as esprima attaches them, comments as    *)
(* doctrine parses them                                                    *)

\* how many top-level statements a source has at most
MaxStatements == 2

Identifier(name) == [type |-> "Identifier", name |-> name]

StringLiteral(text) ==
    [type |-> "Literal", value |-> [typeof |-> "string", text |-> text, elements |-> <<>>]]

NumberLiteral(text) ==
    [type |-> "Literal", value |-> [typeof |-> "number", text |-> text, elements |-> <<>>]]

MemberExpression(object, property) ==
    [type |-> "MemberExpression", object |-> object, property |-> property]

ThisExpression == [type |-> "ThisExpression"]

CallExpression(callee, arguments) ==
    [type |-> "CallExpression", callee |-> callee, arguments |-> arguments]

ReturnStatement(argument) == [type |-> "ReturnStatement", argument |-> argument]

BlockStatement(body) == [type |-> "BlockStatement", body |-> body]

\* if (x) { return 1; }
IfStatement == [type |-> "IfStatement",
                consequent |-> BlockStatement(<< ReturnStatement(NumberLiteral("1")) >>)]

Function(type, name, params, body) ==
    [type |-> type, id |-> Identifier(name),
     params |-> [i \in 1..Len(params) |-> Identifier(params[i])],
     body |-> BlockStatement(body), leadingComments |-> <<>>]

NameExpression(name) == [type |-> "NameExpression", name |-> name]

UnionType(elements) == [type |-> "UnionType", elements |-> elements]

OptionalType(expression) == [type |-> "OptionalType", expression |-> expression]

Tag(title, name, type) ==
    [title |-> title, name |-> name, description |-> undefined, type |-> type]

Block(description, tags) ==
    [type |-> "Block", value |-> [type |-> "jsdoc", description |-> description, tags |-> tags]]

WithComments(nd, leadingComments) == [nd EXCEPT !.leadingComments = leadingComments]

VariableStatement(name, init) ==
    [type |-> "VariableDeclaration",
     declarations |-> << [type |-> "VariableDeclarator", id |-> Identifier(name), init |-> init] >>,
     leadingComments |-> <<>>]

AssignmentStatement(left, right) ==
    [type |-> "ExpressionStatement",
     expression |-> [type |-> "AssignmentExpression", left |-> left, right |-> right],
     leadingComments |-> <<>>]

ExpressionStatement(expression) ==
    [type |-> "ExpressionStatement", expression |-> expression, leadingComments |-> <<>>]

Property(name, value) == [type |-> "Property", key |-> Identifier(name), value |-> value]

\* the bodies a function of the sources has
NoReturn == <<>>
ReturnsValue == << ReturnStatement(NumberLiteral("1")) >>
ReturnsBare == << ReturnStatement(Null) >>
ReturnsNested == << IfStatement >>
ReturnsTwice == << ReturnStatement(NumberLiteral("1")), ReturnStatement(NumberLiteral("2")) >>

\* the documentation comments of the sources
ParamDoc(typeName) == Block("doc", << Tag("param", "x", NameExpression(typeName)) >>)
ParamUnionDoc ==
    Block("doc", << Tag("param", "x", UnionType(<< NameExpression(<<"number">>),
                                                    NameExpression(<<"Sprocket">>) >>)) >>)
ParamOptionalDoc == Block("doc", << Tag("param", "x", OptionalType(NameExpression(<<"string">>))) >>)
ParamUntypedDoc == Block("doc", << Tag("param", "x", Null) >>)
FullDoc == Block("doc", << Tag("param", "x", NameExpression(<<"number">>)),
                            Tag("return", undefined, NameExpression(<<"number">>)) >>)
ReturnDoc(typeName) == Block("doc", << Tag("return", undefined, NameExpression(typeName)) >>)
TypedefDoc ==
    Block("A number, or a string containing a number.",
          << Tag("typedef", "NumberLike", UnionType(<< NameExpression(<<"number">>),
                                                       NameExpression(<<"string">>) >>)) >>)
TypedefUnknownDoc ==
    Block("doc", << Tag("typedef", "Gadget", NameExpression(<<"Sprocket">>)) >>)

FunctionStatement(name, params, body, leadingComments) ==
    WithComments(Function("FunctionDeclaration", name, params, body), leadingComments)

FunctionExpression(params, body) == Function("FunctionExpression", "", params, body)

Exports(name) == MemberExpression(Identifier("exports"), Identifier(name))

ModuleExports == MemberExpression(Identifier("module"), Identifier("exports"))

Prototype(name, member) ==
    MemberExpression(MemberExpression(Identifier(name), Identifier("prototype")), Identifier(member))

\* the statements a source is made of
Statements == <<
    \* function declarations: parameters and results, documented or not
    FunctionStatement("f", <<"x">>, NoReturn, <<>>),
    FunctionStatement("f", <<"x">>, NoReturn, << ParamDoc(<<"string">>) >>),
    FunctionStatement("f", <<"x">>, NoReturn, << ParamDoc(<<"Sprocket">>) >>),
    FunctionStatement("f", <<"x">>, NoReturn, << ParamDoc(<<"external", "String">>) >>),
    FunctionStatement("f", <<"x">>, NoReturn, << ParamDoc(<<"Array">>) >>),
    FunctionStatement("f", <<"x">>, NoReturn, << ParamUnionDoc >>),
    FunctionStatement("f", <<"x">>, NoReturn, << ParamUntypedDoc >>),
    FunctionStatement("f", <<"x">>, NoReturn, << ParamOptionalDoc >>),
    FunctionStatement("f", <<"x">>, NoReturn, << TypedefDoc, ParamDoc(<<"NumberLike">>) >>),
    FunctionStatement("g", <<"x">>, NoReturn, << ParamDoc(<<"NumberLike">>) >>),
    FunctionStatement("f", <<"x", "y">>, ReturnsValue, << FullDoc >>),
    FunctionStatement("f", <<"x">>, ReturnsValue, << FullDoc >>),
    FunctionStatement("g", <<>>, ReturnsValue, <<>>),
    FunctionStatement("g", <<>>, ReturnsValue, << ReturnDoc(<<"Sprocket">>) >>),
    FunctionStatement("g", <<>>, ReturnsBare, <<>>),
    FunctionStatement("g", <<>>, ReturnsNested, << ReturnDoc(<<"number">>) >>),
    FunctionStatement("g", <<>>, ReturnsTwice, <<>>),
    FunctionStatement("g", <<>>, NoReturn, << ReturnDoc(<<"number">>) >>),
    \* local variables
    VariableStatement("a", FunctionExpression(<<"x">>, NoReturn)),
    VariableStatement("a", NumberLiteral("5")),
    VariableStatement("a", CallExpression(Identifier("require"), << StringLiteral("./a") >>)),
    VariableStatement("a", Null),
    WithComments(VariableStatement("a", NumberLiteral("5")),
                 << TypedefUnknownDoc, Block("doc", <<>>) >>),
    \* assignments
    WithComments(AssignmentStatement(Exports("a"), FunctionExpression(<<"x">>, NoReturn)),
                 << ParamDoc(<<"string">>) >>),
    AssignmentStatement(Exports("a"), NumberLiteral("5")),
    AssignmentStatement(Exports("a"), Identifier("f")),
    AssignmentStatement(Exports("f"), Identifier("f")),
    AssignmentStatement(Exports("a"),
        [type |-> "ArrayExpression", elements |-> << NumberLiteral("1") >>]),
    AssignmentStatement(Exports("a"),
        [type |-> "ObjectExpression", properties |-> << Property("color", StringLiteral("black")) >>]),
    AssignmentStatement(Exports("a"), [type |-> "NewExpression", callee |-> Identifier("Widget")]),
    AssignmentStatement(Exports("a"), CallExpression(Identifier("f"), <<>>)),
    AssignmentStatement(MemberExpression(ModuleExports, Identifier("a")), StringLiteral("s")),
    WithComments(AssignmentStatement(ModuleExports, FunctionExpression(<<"x">>, NoReturn)),
                 << ParamDoc(<<"Sprocket">>) >>),
    AssignmentStatement(ModuleExports,
        [type |-> "ObjectExpression", properties |-> << Property("color", StringLiteral("black")) >>]),
    AssignmentStatement(ModuleExports, NumberLiteral("5")),
    AssignmentStatement(Prototype("f", "open"), FunctionExpression(<<>>, NoReturn)),
    AssignmentStatement(MemberExpression(Identifier("f"), Identifier("version")), NumberLiteral("1")),
    AssignmentStatement(MemberExpression(ThisExpression, Identifier("x")), NumberLiteral("1")),
    AssignmentStatement(Identifier("a"), NumberLiteral("1")),
    \* other statements
    ExpressionStatement(CallExpression(Identifier("f"), <<>>)),
    ExpressionStatement(StringLiteral("use strict")),
    [type |-> "IfStatement", leadingComments |-> <<>>],
    \* ES2015 exports
    [type |-> "ExportNamedDeclaration",
     declaration |-> VariableStatement("a", Null), specifiers |-> <<>>, source |-> Null,
     leadingComments |-> <<>>],
    [type |-> "ExportNamedDeclaration",
     declaration |-> Function("FunctionDeclaration", "f", <<"x">>, ReturnsValue),
     specifiers |-> <<>>, source |-> Null, leadingComments |-> << FullDoc >>],
    [type |-> "ExportNamedDeclaration", declaration |-> Null,
     specifiers |-> << [type |-> "ExportSpecifier", local |-> Identifier("f"),
                        exported |-> Identifier("a")] >>,
     source |-> Null, leadingComments |-> <<>>],
    [type |-> "ExportDefaultDeclaration", declaration |-> Identifier("f"),
     leadingComments |-> <<>>],
    [type |-> "ExportAllDeclaration", source |-> StringLiteral("./a"), leadingComments |-> <<>>],
    [type |-> "ExportNamedDeclaration", declaration |-> Null,
     specifiers |-> << [type |-> "ExportSpecifier", local |-> Identifier("f"),
                        exported |-> Identifier("a")] >>,
     source |-> StringLiteral("./a"), leadingComments |-> <<>>],
    [type |-> "ExportNamedDeclaration",
     declaration |-> VariableStatement("a", NumberLiteral("5")), specifiers |-> <<>>,
     source |-> Null, leadingComments |-> <<>>],
    [type |-> "ExportNamedDeclaration",
     declaration |->
         [type |-> "VariableDeclaration",
          declarations |->
              << [type |-> "VariableDeclarator", id |-> Identifier("f"), init |-> Null],
                 [type |-> "VariableDeclarator", id |-> Identifier("b"),
                  init |-> FunctionExpression(<<"x">>, NoReturn)] >>,
          leadingComments |-> <<>>],
     specifiers |-> <<>>, source |-> Null, leadingComments |-> <<>>],
    [type |-> "ExportDefaultDeclaration", declaration |-> NumberLiteral("5"),
     leadingComments |-> <<>>],
    [type |-> "ExportDefaultDeclaration",
     declaration |-> Function("FunctionDeclaration", "f", <<"x">>, NoReturn),
     leadingComments |-> << ParamDoc(<<"string">>) >>],
    \* the whole module is a function whose parameter has no documentation
    AssignmentStatement(ModuleExports, FunctionExpression(<<"x">>, NoReturn))
>>

\* how many top-level statements a source that builds classes has at most
MaxClassStatements == 4

\* the statements of the sources that build classes
ClassStatements == <<
    FunctionStatement("f", <<"x">>, NoReturn, << ParamDoc(<<"string">>) >>),
    FunctionStatement("g", <<>>, NoReturn, <<>>),
    AssignmentStatement(Prototype("f", "open"), FunctionExpression(<<>>, NoReturn)),
    AssignmentStatement(Prototype("f", "open"), NumberLiteral("5")),
    WithComments(AssignmentStatement(Prototype("f", "close"), FunctionExpression(<<"x">>, NoReturn)),
                 << ParamDoc(<<"Sprocket">>) >>),
    AssignmentStatement(Prototype("g", "open"), Identifier("f")),
    AssignmentStatement(Prototype("f", "close"),
                        [type |-> "NewExpression", callee |-> Identifier("Widget")]),
    AssignmentStatement(Exports("f"), Identifier("f"))
>>

\* the sources of a process that runs the pipeline more than once: at most
\* MaxRerunStatements statements each, MaxRuns calls
MaxRerunStatements == 2

MaxRuns == 3

RerunStatements == <<
    \* a function whose comments define the type NumberLike
    FunctionStatement("f", <<"x">>, NoReturn, << TypedefDoc, ParamDoc(<<"NumberLike">>) >>),
    \* a function that uses NumberLike and does not define it
    FunctionStatement("g", <<"x">>, NoReturn, << ParamDoc(<<"NumberLike">>) >>),
    \* statements parseCode throws on, below the statement and at it
    AssignmentStatement(MemberExpression(ThisExpression, Identifier("x")), NumberLiteral("1")),
    ExpressionStatement(CallExpression(Identifier("f"), <<>>)),
    \* exports: a member, and one format throws on
    AssignmentStatement(Exports("g"), Identifier("g")),
    AssignmentStatement(Exports("a"), [type |-> "NewExpression", callee |-> Identifier("Widget")])
>>

\* the type expressions followed on their own: unions nested at most
\* MaxTypeNesting deep
MaxTypeNesting == 2

\* a node of doctrine's type grammar
TypeNode(type, name, elements) == [type |-> type, name |-> name, elements |-> elements]

\* the leaves: names (plain, in the alias table, namespaced) and the
\* productions that are neither a name nor a union
TypeLeaves == <<
    TypeNode("NameExpression", <<"number">>, <<>>),
    TypeNode("NameExpression", <<"Array">>, <<>>),
    TypeNode("NameExpression", <<"ns", "Widget">>, <<>>),
    TypeNode("FunctionType", <<>>, <<>>),
    TypeNode("TypeApplication", <<>>, <<>>),
    TypeNode("OptionalType", <<>>, <<>>),
    TypeNode("NonNullableType", <<>>, <<>>)
>>

-----------------------------------------------------------------------------
(* The run *)

\* const globalTypes = ['string', 'String', 'object', 'number', 'Function', 'any', 'Object', 'void']
builtinTypes == <<"string", "String", "object", "number", "Function", "any", "Object", "void">>

Init ==
    /\ node = Null
    /\ pos = 0
    /\ items = <<>>
    /\ exports = Null
    /\ globalTypes = builtinTypes
    /\ moduleErrors = <<>>
    /\ actualPath = <<>>
    /\ status = "parsing"
    /\ error = NoError
    /\ options = Null
    /\ output = [thrown |-> NoError, text |-> <<>>]
    /\ run = 1
    /\ program = <<>>
    /\ retained = <<>>
    /\ tree = Null
    /\ typeNames = [thrown |-> NoError, names |-> <<>>]
    /\ matched = <<>>
    /\ rendered = <<>>
    /\ stage = "idle"

\* what the closures of parseCode hold when an iteration starts
closure ==
    [items |-> items, exports |-> exports, globalTypes |-> globalTypes,
     errors |-> moduleErrors, actualPath |-> actualPath, callStack |-> <<>>,
     thrown |-> NoError, ret |-> Null]

\* an iteration after which the members registered so far are validated at
\* once, against the type names known at that point of the source
iteratedAndSwept(after) ==
    /\ items' = sweep(after.items, Keys(after.items), after.globalTypes)
    /\ exports' = after.exports
    /\ globalTypes' = after.globalTypes
    /\ moduleErrors' = after.errors
    /\ actualPath' = after.actualPath
    /\ status' = IF Threw(after) THEN "aborted" ELSE "parsing"
    /\ error' = after.thrown

\* what an iteration leaves: the state it wrote, and the run goes on or aborts
iterated(after) ==
    /\ items' = after.items
    /\ exports' = after.exports
    /\ globalTypes' = after.globalTypes
    /\ moduleErrors' = after.errors
    /\ actualPath' = after.actualPath
    /\ status' = IF Threw(after) THEN "aborted" ELSE "parsing"
    /\ error' = after.thrown

\* one iteration of the loop over program.body, on statement nd
parsed(nd) ==
    /\ status = "parsing"
    /\ node' = nd
    /\ pos' = pos + 1
    /\ iterated(iteration(closure, nd))
    /\ UNCHANGED <<options, output, typeVars>>

\* the next statement of a source of at most MaxStatements statements
ParseStatement(nd) == pos < MaxStatements /\ parsed(nd) /\ UNCHANGED <<run, program, retained>>

\* the end of program.body: the sweep over the member map, then the return
Validate ==
    /\ status = "parsing"
    /\ items' = sweep(items, Keys(items), globalTypes)
    /\ status' = "returned"
    /\ UNCHANGED <<node, pos, exports, globalTypes, moduleErrors, actualPath, error,
                   options, output, run, program, retained, typeVars>>

\* parseCode was called with this module name
moduleName == "m"

\* return { [moduleName]: theModule }
modules == [name |-> moduleName, module |-> [items |-> items, exports |-> exports]]

\* format(modules, { colors: false, warnings: w }) on what parseCode returned
Format(w) ==
    /\ status = "returned"
    /\ options' = [colors |-> FALSE, warnings |-> w]
    /\ output' = format(modules, options')
    /\ status' = "formatted"
    /\ UNCHANGED <<node, pos, items, exports, globalTypes, moduleErrors, actualPath, error,
                   run, program, retained, typeVars>>

Next ==
    \/ \E i \in 1..Len(Statements) : ParseStatement(Statements[i])
    \/ Validate
    \/ \E w \in BOOLEAN : Format(w)

Spec == Init /\ [][Next]_vars

\* sources that build classes: functions and assignments to their prototypes
ParseClassStatement(nd) ==
    pos < MaxClassStatements /\ parsed(nd) /\ UNCHANGED <<run, program, retained>>

NextClass ==
    \/ \E i \in 1..Len(ClassStatements) : ParseClassStatement(ClassStatements[i])
    \/ Validate
    \/ \E w \in BOOLEAN : Format(w)

ClassSpec == Init /\ [][NextClass]_vars

\* a process that calls parseCode and format again and again; the source of
\* each call is recorded
ParseRerunStatement(nd) ==
    /\ pos < MaxRerunStatements
    /\ parsed(nd)
    /\ program' = Append(program, nd)
    /\ UNCHANGED <<run, retained>>

\* a next call that goes on with the globalTypes array of the call before
RerunKeepingTypes ==
    /\ status \in {"aborted", "formatted"}
    /\ run < MaxRuns
    /\ run' = run + 1
    /\ retained' = globalTypes
    /\ program' = <<>>
    /\ node' = Null
    /\ pos' = 0
    /\ items' = <<>>
    /\ exports' = Null
    /\ moduleErrors' = <<>>
    /\ status' = "parsing"
    /\ error' = NoError
    /\ options' = Null
    /\ output' = [thrown |-> NoError, text |-> <<>>]
    /\ UNCHANGED <<actualPath, globalTypes, typeVars>>

\* the next call of parseCode, after a call that threw or whose result was
\* formatted: globalTypes, theModule and its items are made anew by the call,
\* format makes a new writer; actualPath belongs to the module walk.ts
Rerun ==
    /\ status \in {"aborted", "formatted"}
    /\ run < MaxRuns
    /\ run' = run + 1
    /\ retained' = globalTypes
    /\ program' = <<>>
    /\ node' = Null
    /\ pos' = 0
    /\ items' = <<>>
    /\ exports' = Null
    /\ globalTypes' = builtinTypes
    /\ moduleErrors' = <<>>
    /\ status' = "parsing"
    /\ error' = NoError
    /\ options' = Null
    /\ output' = [thrown |-> NoError, text |-> <<>>]
    /\ UNCHANGED <<actualPath, typeVars>>

NextRerun ==
    \/ \E i \in 1..Len(RerunStatements) : ParseRerunStatement(RerunStatements[i])
    \/ Validate
    \/ \E w \in BOOLEAN : Format(w)
    \/ Rerun

RerunSpec == Init /\ [][NextRerun]_vars

\* how deep the unions of a type expression nest
RECURSIVE NestingOf(_)
NestingOf(type) ==
    IF type.type # "UnionType" \/ type.elements = <<>> THEN 0
    ELSE 1 + NestingOf(type.elements[
                 CHOOSE i \in 1..Len(type.elements) :
                     \A j \in 1..Len(type.elements) :
                         NestingOf(type.elements[j]) <= NestingOf(type.elements[i])])

\* a type expression on its own, through parseJsDocType, matchType and
\* formatType: it starts as one of the leaves
TypeInit ==
    /\ node = Null
    /\ pos = 0
    /\ items = <<>>
    /\ exports = Null
    /\ globalTypes = builtinTypes
    /\ moduleErrors = <<>>
    /\ actualPath = <<>>
    /\ status = "parsing"
    /\ error = NoError
    /\ options = Null
    /\ output = [thrown |-> NoError, text |-> <<>>]
    /\ run = 1
    /\ program = <<>>
    /\ retained = <<>>
    /\ \E i \in 1..Len(TypeLeaves) : tree = TypeLeaves[i]
    /\ typeNames = [thrown |-> NoError, names |-> <<>>]
    /\ matched = <<>>
    /\ rendered = <<>>
    /\ stage = "documented"

\* the documentation holds the expression inside a union: alone, or with a
\* leaf before or after it
NestType(elements) ==
    /\ stage = "documented"
    /\ NestingOf(tree) < MaxTypeNesting
    /\ tree' = TypeNode("UnionType", <<>>, elements)
    /\ UNCHANGED <<runVars, typeNames, matched, rendered, stage>>

\* parseJsDocType(tag.type)
ParseType ==
    /\ stage = "documented"
    /\ typeNames' = parseJsDocType(tree)
    /\ stage' = IF parseJsDocType(tree).thrown.name # "none" THEN "thrown" ELSE "parsed"
    /\ UNCHANGED <<runVars, tree, matched, rendered>>

\* matchType(parseJsDocType(tag.type))
MatchType ==
    /\ stage = "parsed"
    /\ matched' = matchType(typeNames.names).types
    /\ stage' = "matched"
    /\ UNCHANGED <<runVars, tree, typeNames, rendered>>

\* formatType(param.types)
FormatType ==
    /\ stage = "matched"
    /\ rendered' = formatType(matched)
    /\ stage' = "formatted"
    /\ UNCHANGED <<runVars, tree, typeNames, matched>>

NextType ==
    \/ NestType(<< tree >>)
    \/ \E i \in 1..Len(TypeLeaves) :
          NestType(<< tree, TypeLeaves[i] >>) \/ NestType(<< TypeLeaves[i], tree >>)
    \/ ParseType
    \/ MatchType
    \/ FormatType

TypeSpec == TypeInit /\ [][NextType]_vars

-----------------------------------------------------------------------------
(* What the claims speak of *)

\* the recognized-type set
Recognized == { globalTypes[i] : i \in 1..Len(globalTypes) }

\* a Type of the recognized-type set: one of its names, not namespaced
InRecognizedSet(t) == t.namespace = null /\ t.name \in Recognized

AnyType == [namespace |-> null, name |-> "any", parameters |-> <<>>]

VoidType == [namespace |-> null, name |-> "void", parameters |-> <<>>]

\* how many entries of a sequence satisfy a test
CountOf(seq, Test(_)) == Cardinality({ i \in 1..Len(seq) : Test(seq[i]) })

\* the step that ends the pass: the sweep over the member map
IsSweep == status = "parsing" /\ status' = "returned"

\* the diagnostics a step appended to a declaration
Added(before, after) == SubSeq(after.errors, Len(before.errors) + 1, Len(after.errors))

\* a list of types after the sweep: recognized ones as they were, the others `any`
TypesSwept(before, after) ==
    /\ Len(after) = Len(before)
    /\ \A j \in 1..Len(before) :
          after[j] = IF InRecognizedSet(before[j]) THEN before[j] ELSE AnyType

\* the statement last processed hands a function to getFunctionExport and
\* registers what it builds under a member name: << [fn, key] >>, else << >>
Built ==
    IF IsNull(node) THEN <<>>
    ELSE IF node.type = "FunctionDeclaration"
         THEN << [fn |-> node, key |-> <<node.id.name>>] >>
    ELSE IF node.type = "VariableDeclaration"
         THEN IF /\ Len(node.declarations) = 1
                 /\ ~IsNull(node.declarations[1].init)
                 /\ node.declarations[1].init.type = "FunctionExpression"
              THEN << [fn |-> node.declarations[1].init,
                       key |-> <<node.declarations[1].id.name>>] >>
              ELSE <<>>
    ELSE IF node.type = "ExportNamedDeclaration"
         THEN IF ~IsNull(node.declaration) /\ node.declaration.type = "FunctionDeclaration"
              THEN << [fn |-> node.declaration, key |-> <<node.declaration.id.name>>] >>
              ELSE <<>>
    ELSE <<>>

\* the tags of the comment attached to the statement last processed
AttachedTags(title) ==
    IF IsNull(node) \/ node.leadingComments = <<>> THEN <<>>
    ELSE SelectSeq(node.leadingComments[Len(node.leadingComments)].value.tags,
                   LAMBDA tag : tag.title = title)

\* the name expressions of a type expression made of unions and names, left to right
RECURSIVE LeafNames(_)
LeafNames(type) ==
    IF type.type = "UnionType"
    THEN Flatten([i \in 1..Len(type.elements) |-> LeafNames(type.elements[i])])
    ELSE << type.name >>

\* the Type a documented name `ns:Name` or `Name` stands for
DocumentedType(parts) ==
    [namespace |-> IF Len(parts) = 2 THEN parts[1] ELSE null,
     name |-> IF Last(parts) = "Array" THEN "any[]" ELSE Last(parts),
     parameters |-> <<>>]

DocumentedTypes(tags) ==
    LET names == Flatten([i \in 1..Len(tags) |-> LeafNames(tags[i].type)])
    IN  [j \in 1..Len(names) |-> DocumentedType(names[j])]

\* a message that names parameter `name`
NamesParameter(message, name) ==
    /\ Len(message) >= 2
    /\ message[1] \in {"parameter", "Parameter"}
    /\ message[2] = name

\* a `return` with a value, anywhere in a function body
RECURSIVE HasValueReturn(_)
HasValueReturn(body) ==
    \E i \in 1..Len(body) :
        \/ body[i].type = "ReturnStatement" /\ ~IsNull(body[i].argument)
        \/ body[i].type = "IfStatement" /\ HasValueReturn(body[i].consequent.body)

\* every Type node of a declaration
RECURSIVE TypesOf(_)
TypesOf(d) ==
    IF IsNull(d) THEN <<>>
    ELSE IF d.type \in {"variable", "typedef"} THEN d.types
    ELSE IF d.type = "function"
         THEN Flatten([i \in 1..Len(d.params) |-> d.params[i].types]) \o d.result
    ELSE IF d.type = "class"
         THEN TypesOf(d.ctor) \o Flatten([i \in 1..Len(d.members) |-> TypesOf(d.members[i].value)])
    ELSE <<>>

\* every Type node of the module tree
TreeTypes ==
    Flatten([i \in 1..Len(items) |-> TypesOf(items[i].value)]) \o TypesOf(exports)

\* the statement last processed is `exports.<name> = <rhs>` or
\* `module.exports.<name> = <rhs>` with a right-hand side getExport supports
IsMemberExport ==
    /\ ~IsNull(node)
    /\ node.type = "ExpressionStatement"
    /\ node.expression.type = "AssignmentExpression"
    /\ node.expression.left.type = "MemberExpression"
    /\ node.expression.left.property.type = "Identifier"
    /\ \/ node.expression.left.object = [type |-> "Identifier", name |-> "exports"]
       \/ node.expression.left.object =
             [type |-> "MemberExpression",
              object |-> [type |-> "Identifier", name |-> "module"],
              property |-> [type |-> "Identifier", name |-> "exports"]]
    /\ node.expression.right.type \in
          {"FunctionExpression", "Identifier", "Literal", "ArrayExpression",
           "ObjectExpression", "NewExpression"}

\* the statement last processed is `module.exports = <rhs>`, as above
IsModuleExport ==
    /\ ~IsNull(node)
    /\ node.type = "ExpressionStatement"
    /\ node.expression.type = "AssignmentExpression"
    /\ node.expression.left =
          [type |-> "MemberExpression",
           object |-> [type |-> "Identifier", name |-> "module"],
           property |-> [type |-> "Identifier", name |-> "exports"]]
    /\ node.expression.right.type \in
          {"FunctionExpression", "Identifier", "Literal", "ArrayExpression",
           "ObjectExpression", "NewExpression"}

\* the declaration variant the export inference gives an expression
InferredVariant(expression) ==
    CASE expression.type = "FunctionExpression" -> "function"
      [] expression.type = "Identifier" -> "identifier"
      [] expression.type = "Literal" -> "constant"
      [] expression.type = "ArrayExpression" -> "constant"
      [] expression.type = "ObjectExpression" -> "object"
      [] expression.type = "NewExpression" -> "newInstance"

\* the statement is `<name>.prototype.<member> = <rhs>`, as above
IsPrototypeAssignment(nd) ==
    /\ ~IsNull(nd)
    /\ nd.type = "ExpressionStatement"
    /\ nd.expression.type = "AssignmentExpression"
    /\ nd.expression.left.type = "MemberExpression"
    /\ nd.expression.left.property.type = "Identifier"
    /\ nd.expression.left.object.type = "MemberExpression"
    /\ nd.expression.left.object.object.type = "Identifier"
    /\ nd.expression.left.object.property = [type |-> "Identifier", name |-> "prototype"]
    /\ nd.expression.right.type \in
          {"FunctionExpression", "Identifier", "Literal", "ArrayExpression",
           "ObjectExpression", "NewExpression"}

\* the declaration variant getExport gives the operand of a default export
OperandVariant(operand) ==
    CASE operand.type \in {"FunctionExpression", "FunctionDeclaration"} -> "function"
      [] operand.type = "Identifier" -> "identifier"
      [] operand.type \in {"Literal", "ArrayExpression", "BinaryExpression"} -> "constant"
      [] operand.type = "ObjectExpression" -> "object"
      [] operand.type = "NewExpression" -> "newInstance"
      [] operand.type = "ClassDeclaration" -> "class"

\* the statement last processed is a named export with a bare specifier list
IsSpecifierExport ==
    /\ ~IsNull(node)
    /\ node.type = "ExportNamedDeclaration"
    /\ IsNull(node.declaration)
    /\ node.specifiers # <<>>

\* the statement last processed is a named export wrapping a declaration
IsDeclarationExport ==
    /\ ~IsNull(node)
    /\ node.type = "ExportNamedDeclaration"
    /\ ~IsNull(node.declaration)

\* the @typedef tags of the leading comments of a statement that are not the
\* comment attached to it
UnattachedTypedefs(nd) ==
    Flatten([i \in 1..(Len(nd.leadingComments) - 1) |->
        SelectSeq(nd.leadingComments[i].value.tags, LAMBDA tag : tag.title = "typedef")])

-----------------------------------------------------------------------------
(* The claims *)

\* C1: parseCode aborts only with UnhandledNodeKind or UnsupportedTypeGrammar;
\* every other condition is a Diagnostic on a declaration and the run returns
\* a module tree.
C1_OnlyTwoFatalConditions ==
    status = "aborted" => error.name \in {"UnhandledNodeKind", "UnsupportedTypeGrammar"}

\* C2: walk on a node whose kind has no handler invokes no handler and raises
\* an error whose path is not empty: the kinds of the dispatches in progress,
\* outermost (the statement's own kind) first, the offending kind last.
C2_UnhandledKindRaisesPath ==
    [][ (status' = "aborted" /\ error'.name = "UnhandledNodeKind") =>
            /\ error'.path # <<>>
            /\ Last(error'.path) = error'.type
            /\ error'.path[1] = node'.type
            /\ error'.path = error'.callStack
            /\ (Len(error'.path) = 1 /\ node'.leadingComments = <<>>) =>
                   UNCHANGED <<items, exports, globalTypes, moduleErrors>>
      ]_vars

\* C2 witness: `this.x = 1` raised from the fourth nested dispatch
C2_Witness ==
    /\ status = "aborted"
    /\ error.name = "UnhandledNodeKind"
    /\ error.path = <<"ExpressionStatement", "AssignmentExpression",
                      "MemberExpression", "ThisExpression">>

\* C3: the path stack is restored on every exit of walk, by return or by
\* raise: it is empty before each top-level statement and after a run that
\* aborted, and when a missing handler raises it holds the dispatches still
\* in progress and nothing of those that finished.
C3_PathStackRestored ==
    /\ actualPath = <<>>
    /\ (status = "aborted" /\ error.name = "UnhandledNodeKind") =>
           error.path = error.callStack

\* C3 witness: a second statement whose handler raised, two dispatches deep
C3_Witness ==
    /\ status = "aborted"
    /\ pos = 2
    /\ error.name = "NotImplemented"
    /\ actualPath = <<>>

\* C4: in the tree parseCode returns every Type node has a name of the
\* recognized-type set or is `any`.
C4_TypeSafetyNet ==
    status = "returned" =>
        \A i \in 1..Len(TreeTypes) :
            TreeTypes[i].name = "any" \/ TreeTypes[i].name \in Recognized

\* C5: the sweep rewrites every Type of a Variable or Function member that is
\* not in the recognized-type set to {null, "any"} and appends exactly one
\* Diagnostic naming it (`Parameter "x" type "T" was not found` for a
\* parameter); recognized Types stay as they are and add no Diagnostic.
C5_SweepDowngradesUnknownTypes ==
    [][ IsSweep =>
          \A i \in 1..Len(items) :
            LET before == items[i].value
                after == items'[i].value
            IN  /\ before.type = "variable" =>
                      /\ TypesSwept(before.types, after.types)
                      /\ Len(Added(before, after)) =
                            CountOf(before.types, LAMBDA t : ~InRecognizedSet(t))
                      /\ \A j \in 1..Len(before.types) :
                            ~InRecognizedSet(before.types[j]) =>
                               CountOf(Added(before, after), LAMBDA e :
                                   e.message = <<"Type", before.types[j].name, "was not found">>)
                               = CountOf(before.types, LAMBDA t :
                                   ~InRecognizedSet(t) /\ t.name = before.types[j].name)
                /\ before.type = "function" =>
                      /\ Len(after.params) = Len(before.params)
                      /\ TypesSwept(before.result, after.result)
                      /\ Len(Added(before, after)) =
                            CountOf(TypesOf(before), LAMBDA t : ~InRecognizedSet(t))
                      /\ \A k \in 1..Len(before.params) :
                            LET types == before.params[k].types
                            IN  /\ TypesSwept(types, after.params[k].types)
                                /\ \A j \in 1..Len(types) :
                                     ~InRecognizedSet(types[j]) =>
                                        CountOf(Added(before, after), LAMBDA e :
                                            e.message = <<"Parameter", before.params[k].name,
                                                          "type", types[j].name, "was not found">>)
                                        = CountOf(types, LAMBDA t :
                                            ~InRecognizedSet(t) /\ t.name = types[j].name)
      ]_vars

\* C5 witness: scenario 5, a parameter documented with the unknown `Sprocket`
C5_Witness ==
    /\ status = "returned"
    /\ \E i \in 1..Len(items) :
          /\ items[i].value.type = "function"
          /\ items[i].value.params # <<>>
          /\ items[i].value.params[1].types = << AnyType >>
          /\ \E k \in 1..Len(items[i].value.errors) :
                items[i].value.errors[k].message =
                    <<"Parameter", "x", "type", "Sprocket", "was not found">>

\* C6 as stated: the sweep leaves a namespaced Type as it is and appends no
\* Diagnostic for it, whatever its name.
C6_NamespacedTypeAccepted ==
    [][ IsSweep =>
          \A i \in 1..Len(items) :
            LET before == items[i].value
                after == items'[i].value
            IN  before.type = "function" =>
                  \A k \in 1..Len(before.params) :
                    \A j \in 1..Len(before.params[k].types) :
                      before.params[k].types[j].namespace # null =>
                        /\ after.params[k].types[j] = before.params[k].types[j]
                        /\ \A m \in 1..Len(Added(before, after)) :
                              ~NamesParameter(Added(before, after)[m].message,
                                              before.params[k].name)
      ]_vars

\* C6 amended: the sweep never accepts a namespaced Type: whatever its name it
\* is rewritten to {null, "any"} and one Diagnostic naming it is appended.
C6_NamespacedTypeDowngraded ==
    [][ IsSweep =>
          \A i \in 1..Len(items) :
            LET before == items[i].value
                after == items'[i].value
            IN  before.type = "function" =>
                  \A k \in 1..Len(before.params) :
                    \A j \in 1..Len(before.params[k].types) :
                      before.params[k].types[j].namespace # null =>
                        /\ after.params[k].types[j] = AnyType
                        /\ CountOf(Added(before, after), LAMBDA e :
                               e.message = <<"Parameter", before.params[k].name, "type",
                                             before.params[k].types[j].name, "was not found">>)
                           = CountOf(before.params[k].types, LAMBDA t :
                               ~InRecognizedSet(t) /\ t.name = before.params[k].types[j].name)
      ]_vars

\* C6 witness: `@param {external:String} x`, a namespaced type whose name is a
\* built-in, after the sweep
C6_Witness ==
    /\ status = "returned"
    /\ \E i \in 1..Len(items) :
          /\ items[i].value.type = "function"
          /\ \E k \in 1..Len(items[i].value.errors) :
                items[i].value.errors[k].message =
                    <<"Parameter", "x", "type", "String", "was not found">>

\* C7: every parameter of a function built by getFunctionExport has the types
\* of its @param tag when that tag has a type, else `any`; the declaration's
\* diagnostics name the parameter exactly once when it lacks a documented
\* type and never when it is documented with recognized types; a fully
\* documented function has no diagnostics.  Before the sweep and after it.
C7_DiagnosticCompleteness ==
    (status \in {"parsing", "returned"} /\ Built # <<>>) =>
        LET fn == Built[1].fn
            e == Get(items, Built[1].key)
            typed(name) == SelectSeq(AttachedTags("param"),
                                     LAMBDA tag : tag.name = name /\ ~IsNull(tag.type))
            documented(name) == DocumentedTypes(typed(name))
            naming(name) == CountOf(e.errors, LAMBDA x : NamesParameter(x.message, name))
            wellDocumented(name) ==
                /\ typed(name) # <<>>
                /\ \A j \in 1..Len(documented(name)) : InRecognizedSet(documented(name)[j])
        IN  /\ e.type = "function"
            /\ Len(e.params) = Len(fn.params)
            /\ \A i \in 1..Len(fn.params) :
                  LET name == fn.params[i].name
                  IN  /\ e.params[i].name = name
                      /\ typed(name) # <<>> =>
                            e.params[i].types =
                               IF status = "parsing" THEN documented(name)
                               ELSE [j \in 1..Len(documented(name)) |->
                                        IF InRecognizedSet(documented(name)[j])
                                        THEN documented(name)[j] ELSE AnyType]
                      /\ typed(name) = <<>> =>
                            /\ e.params[i].types = << AnyType >>
                            /\ naming(name) = 1
                      /\ wellDocumented(name) => naming(name) = 0
            /\ ( /\ \A i \in 1..Len(fn.params) : wellDocumented(fn.params[i].name)
                 /\ AttachedTags("return") # <<>>
                 /\ \A j \in 1..Len(DocumentedTypes(AttachedTags("return"))) :
                       InRecognizedSet(DocumentedTypes(AttachedTags("return"))[j]) )
               => e.errors = <<>>

\* C7 witness: `function f(x, y)` documented for x only, after the sweep
C7_Witness ==
    /\ status = "returned"
    /\ Built # <<>>
    /\ Len(Built[1].fn.params) = 2
    /\ Get(items, Built[1].key).errors =
          << [message |-> <<"parameter", "y", "type is not specified">>] >>
    /\ Get(items, Built[1].key).params[1].types = << DocumentedType(<<"number">>) >>

\* C8: the result of a function declaration is `void` with no diagnostic when
\* its body has no `return` with a value, the @return tag's types when it has
\* one and the tag exists, and `any` with a diagnostic when it has one and no
\* tag exists.
C8_ResultType ==
    (status = "parsing" /\ Built # <<>>) =>
        LET fn == Built[1].fn
            e == Get(items, Built[1].key)
            returns == AttachedTags("return")
            undocumented == CountOf(e.errors, LAMBDA x :
                                x.message = <<"return type is not specified">>)
        IN  /\ ~HasValueReturn(fn.body.body) => (e.result = << VoidType >> /\ undocumented = 0)
            /\ (HasValueReturn(fn.body.body) /\ returns # <<>>) =>
                   e.result = DocumentedTypes(returns)
            /\ (HasValueReturn(fn.body.body) /\ returns = <<>>) =>
                   (e.result = << AnyType >> /\ undocumented >= 1)

\* C9: `exports.<name> = <rhs>` and `module.exports.<name> = <rhs>` register
\* <name> with the declaration inferred from <rhs>, marked exported, for every
\* right-hand side the export inference supports.
C9_MemberExportRegisters ==
    (pos >= 1 /\ IsMemberExport) =>
        LET key == << node.expression.left.property.name >>
        IN  /\ status # "aborted"
            /\ Has(items, key)
            /\ Get(items, key).exported
            /\ (status = "parsing" /\ node.expression.right.type # "Identifier") =>
                  Get(items, key).type = InferredVariant(node.expression.right)

\* C10: `module.exports = <rhs>` puts the declaration inferred from <rhs> in
\* the exports slot, the last such assignment wins, and a returned tree never
\* has both a filled exports slot and members flagged exported.
C10_ModuleExportsExclusive ==
    /\ (pos >= 1 /\ status = "parsing" /\ IsModuleExport) =>
           (~IsNull(exports) /\ exports.type = InferredVariant(node.expression.right))
    /\ status = "returned" =>
           ~(~IsNull(exports) /\ \E i \in 1..Len(items) : items[i].value.exported)

\* C11: `<name>.prototype.<member> = <rhs>` on a name that holds a Function
\* promotes it in place to a Class whose ctor is that function, and on a name
\* that holds a Class keeps its ctor; in both cases <member> holds the
\* declaration of this assignment, the other members stay as they were and
\* the member names are the assigned ones in order of first assignment.
C11_PrototypePromotion ==
    [][ ( /\ status' = "parsing"
          /\ pos' = pos + 1
          /\ IsPrototypeAssignment(node')
          /\ Has(items, << node'.expression.left.object.object.name >>)
          /\ Get(items, << node'.expression.left.object.object.name >>).type
                \in {"function", "class"} ) =>
        LET name == << node'.expression.left.object.object.name >>
            member == << node'.expression.left.property.name >>
            before == Get(items, name)
            after == Get(items', name)
            members == IF before.type = "function" THEN <<>> ELSE before.members
        IN  /\ Keys(items') = Keys(items)
            /\ \A i \in 1..Len(items) : items[i].key # name => items'[i] = items[i]
            /\ after.type = "class"
            /\ after.ctor = IF before.type = "function" THEN before ELSE before.ctor
            /\ after.ctor.type = "function"
            /\ Keys(after.members) = IF Has(members, member) THEN Keys(members)
                                     ELSE Append(Keys(members), member)
            /\ Get(after.members, member).type = InferredVariant(node'.expression.right)
            /\ \A i \in 1..Len(members) :
                  members[i].key # member => after.members[i] = members[i]
      ]_vars

\* C11 witness: function f, then open, close and open again on f.prototype
C11_Witness ==
    /\ pos = 4
    /\ status = "parsing"
    /\ IsPrototypeAssignment(node)
    /\ node.expression.right.type = "Literal"
    /\ Has(items, <<"f">>)
    /\ Get(items, <<"f">>).type = "class"
    /\ Get(items, <<"f">>).ctor.type = "function"
    /\ Get(items, <<"f">>).ctor.params # <<>>
    /\ Keys(Get(items, <<"f">>).members) = << <<"open">>, <<"close">> >>
    /\ Get(Get(items, <<"f">>).members, <<"open">>).type = "constant"

\* C12: a named export with a bare specifier list registers under each
\* exported name an Identifier alias of the local name when there is no
\* source module, an Import of the source module carrying the local name
\* when there is one; each is marked exported.
C12_SpecifierRegisters ==
    (status = "parsing" /\ IsSpecifierExport) =>
        \A i \in 1..Len(node.specifiers) :
            LET specifier == node.specifiers[i]
                key == << specifier.exported.name >>
            IN  /\ Has(items, key)
                /\ Get(items, key).exported
                /\ IF IsNull(node.source)
                   THEN /\ Get(items, key).type = "identifier"
                        /\ Get(items, key).localName = specifier.local.name
                   ELSE /\ Get(items, key).type = "import"
                        /\ Get(items, key).module = node.source.value.text
                        /\ Get(items, key).local = specifier.local.name

\* C13: a named export wrapping a variable declaration registers every
\* declarator under its name, with the declaration inferred from its
\* initializer or a variable of type any when it has none; wrapping a
\* function declaration it registers the function under its name; each is
\* marked exported and replaces an earlier member of that name.
C13_DeclarationExportRegisters ==
    (status = "parsing" /\ IsDeclarationExport) =>
        IF node.declaration.type = "FunctionDeclaration"
        THEN /\ Has(items, << node.declaration.id.name >>)
             /\ Get(items, << node.declaration.id.name >>).type = "function"
             /\ Len(Get(items, << node.declaration.id.name >>).params)
                    = Len(node.declaration.params)
             /\ Get(items, << node.declaration.id.name >>).exported
        ELSE \A i \in 1..Len(node.declaration.declarations) :
                LET declarator == node.declaration.declarations[i]
                    key == << declarator.id.name >>
                IN  /\ Has(items, key)
                    /\ Get(items, key).exported
                    /\ IF IsNull(declarator.init)
                       THEN /\ Get(items, key).type = "variable"
                            /\ Get(items, key).types = << AnyType >>
                       ELSE Get(items, key).type = InferredVariant(declarator.init)

\* C13 witness: `function f(x) {}` then `export var f, b = function (x) {}`:
\* the earlier member f is replaced, b is registered after it
C13_Witness ==
    /\ status = "parsing"
    /\ pos = 2
    /\ IsDeclarationExport
    /\ Keys(items) = << <<"f">>, <<"b">> >>
    /\ Get(items, <<"f">>).type = "variable"
    /\ Get(items, <<"b">>).type = "function"
    /\ Get(items, <<"b">>).exported

\* C14: a default export registers the declaration inferred from its operand
\* under `default`, a wildcard re-export registers an Import of the source
\* module under `*`; both are marked exported.
C14_ReservedNames ==
    /\ (status = "parsing" /\ ~IsNull(node) /\ node.type = "ExportDefaultDeclaration") =>
           /\ Has(items, <<"default">>)
           /\ Get(items, <<"default">>).type = OperandVariant(node.declaration)
           /\ Get(items, <<"default">>).exported
    /\ (status = "parsing" /\ ~IsNull(node) /\ node.type = "ExportAllDeclaration") =>
           /\ Has(items, <<"*">>)
           /\ Get(items, <<"*">>).type = "import"
           /\ Get(items, <<"*">>).module = node.source.value.text
           /\ Get(items, <<"*">>).local = "*"
           /\ Get(items, <<"*">>).exported

\* C14 witness: `export default function f(x) {}` then `export * from './a'`
C14_Witness ==
    /\ status = "parsing"
    /\ node.type = "ExportAllDeclaration"
    /\ Has(items, <<"*">>)
    /\ Has(items, <<"default">>)
    /\ Get(items, <<"default">>).type = "function"
    /\ Get(items, <<"default">>).exported

\* C15 as stated: the sweep replaces, under the same name, every Identifier
\* alias whose target is not an exported member by the empty placeholder
\* constant, and leaves an alias whose target is an exported member.
C15_AliasOfUnexportedReplaced ==
    [][ IsSweep =>
          /\ Keys(items') = Keys(items)
          /\ \A i \in 1..Len(items) :
                items[i].value.type = "identifier" =>
                   items'[i].value =
                      IF /\ Has(items, << items[i].value.localName >>)
                         /\ Get(items, << items[i].value.localName >>).exported
                      THEN items[i].value
                      ELSE ConstDeclaration(EmptyObject)
      ]_vars

\* C15 amended: the sweep replaces, under the same name, every Identifier
\* alias whose target is not a member of the member map by the empty
\* placeholder constant, and leaves an alias whose target is a member,
\* exported or not.
C15_AliasOfUnknownReplaced ==
    [][ IsSweep =>
          /\ Keys(items') = Keys(items)
          /\ \A i \in 1..Len(items) :
                items[i].value.type = "identifier" =>
                   items'[i].value =
                      IF Has(items, << items[i].value.localName >>)
                      THEN items[i].value
                      ELSE ConstDeclaration(EmptyObject)
      ]_vars

\* C15 witness: `export default f` with no declaration of f, after the sweep
C15_Witness ==
    /\ status = "returned"
    /\ pos = 1
    /\ node.type = "ExportDefaultDeclaration"
    /\ node.declaration.type = "Identifier"
    /\ Get(items, <<"default">>) = ConstDeclaration(EmptyObject)

\* C16: every @typedef tag of a leading comment that is not the one attached
\* to the statement becomes a TypeDef member under the tag's name and the
\* name joins the recognized-type set; the set only grows during the pass,
\* and the sweep leaves a parameter typed with such a name as it is.
C16_TypedefScan ==
    [][ /\ (pos' = pos + 1 /\ status' = "parsing") =>
              \A j \in 1..Len(UnattachedTypedefs(node')) :
                  LET tag == UnattachedTypedefs(node')[j]
                  IN  /\ Has(items', << tag.name >>)
                      /\ Get(items', << tag.name >>).type = "typedef"
                      /\ Get(items', << tag.name >>).types = DocumentedTypes(<< tag >>)
                      /\ \E k \in 1..Len(globalTypes') : globalTypes'[k] = tag.name
        /\ Len(globalTypes') >= Len(globalTypes)
        /\ SubSeq(globalTypes', 1, Len(globalTypes)) = globalTypes
        /\ IsSweep =>
              \A i \in 1..Len(items) :
                  items[i].value.type = "function" =>
                     \A k \in 1..Len(items[i].value.params) :
                        \A t \in 1..Len(items[i].value.params[k].types) :
                           LET type == items[i].value.params[k].types[t]
                           IN  ( /\ type.namespace = null
                                 /\ Has(items, << type.name >>)
                                 /\ Get(items, << type.name >>).type = "typedef" ) =>
                               /\ items'[i].value.params[k].types[t] = type
                               /\ \A m \in 1..Len(Added(items[i].value, items'[i].value)) :
                                     ~NamesParameter(
                                         Added(items[i].value, items'[i].value)[m].message,
                                         items[i].value.params[k].name)
      ]_vars

\* C16 witness: NumberLike declared before `function f`, used by the later
\* `function g`, after the sweep
C16_Witness ==
    /\ status = "returned"
    /\ Has(items, <<"NumberLike">>)
    /\ Get(items, <<"NumberLike">>).type = "typedef"
    /\ Has(items, <<"g">>)
    /\ Get(items, <<"g">>).type = "function"
    /\ Get(items, <<"g">>).params # <<>>
    /\ Get(items, <<"g">>).params[1].types = << DocumentedType(<<"NumberLike">>) >>
    /\ Get(items, <<"g">>).errors = <<>>

\* how many blocks are open where entry i of the emitted text is written
Depth(text, i) ==
    Cardinality({ j \in 1..(i-1) : text[j].op = "block" })
        - Cardinality({ j \in 1..(i-1) : text[j].op = "endBlock" })

\* a template string without the `export ` it may start with
Unexported(text) == IF text # <<>> /\ text[1] = "export " THEN Tail(text) ELSE text

\* the template string t is the signature or declaration of the name n
Declares(t, n) ==
    /\ Len(t) >= 2
    /\ \/ t[1] \in {"var ", "class ", "function ", "type "} /\ t[2] = n
       \/ t[1] = n /\ t[2] \in {" function (", " {};", "  = ", " ", " from \""}
       \/ t[1] = " { " /\ Len(t) >= 3 /\ t[2] = n /\ t[3] = " } from \""
       \/ t[1] = " { " /\ Len(t) >= 4 /\ t[3] = " as " /\ t[4] = n
       \/ t[1] \in {"default class", "default "} /\ n = "default"

\* the entries of a text that declare n at the top level of the module
DeclarationsIn(text, n) ==
    { i \in 1..Len(text) :
        /\ text[i].op \in {"write", "writeLine"}
        /\ Depth(text, i) = 1
        /\ Declares(Unexported(text[i].text), n) }

TopLevelDeclarations(n) == DeclarationsIn(output.text, n)

\* C17: format completes on every tree parseCode returns, and its text holds
\* exactly one top-level declaration for the name of every exported member.
C17_RoundTripCoverage ==
    status = "formatted" =>
        /\ ~Threw(output)
        /\ \A i \in 1..Len(items) :
              items[i].value.exported =>
                 Cardinality(TopLevelDeclarations(dotted(items[i].key)[1])) = 1

\* when format completes, its text holds exactly one top-level declaration
\* for the name of every exported member
C17_CompletedRoundTrip ==
    (status = "formatted" /\ ~Threw(output)) =>
        \A i \in 1..Len(items) :
           items[i].value.exported =>
              Cardinality(TopLevelDeclarations(dotted(items[i].key)[1])) = 1

\* the comment line of a diagnostic
WarnLine(e) == [op |-> "writeLine", text |-> << "// WARN: " >> \o e.message]

IsWarnLine(entry) == entry.op = "writeLine" /\ entry.text # <<>> /\ entry.text[1] = "// WARN: "

\* the entry that ends the declaration written at entry i: the end of its
\* block when it opens one, else the entry itself
EndOfDeclaration(text, i) ==
    IF i < Len(text) /\ text[i+1].op = "block"
    THEN CHOOSE j \in (i+2)..Len(text) :
            /\ text[j].op = "endBlock"
            /\ Depth(text, j+1) = Depth(text, i+1)
            /\ \A k \in (i+2)..(j-1) :
                  ~(text[k].op = "endBlock" /\ Depth(text, k+1) = Depth(text, i+1))
    ELSE i

\* the diagnostics are the comment lines that follow entry i, in their order
WarnedAfter(text, i, errors) ==
    /\ i + Len(errors) <= Len(text)
    /\ \A k \in 1..Len(errors) : text[i+k] = WarnLine(errors[k])

\* the diagnostics are comment lines of the text
WarnedSomewhere(text, errors) ==
    \A k \in 1..Len(errors) : \E i \in 1..Len(text) : text[i] = WarnLine(errors[k])

\* the constructor and the members of a class
ClassParts(class) ==
    (IF IsNull(class.ctor) THEN <<>> ELSE << class.ctor >>)
        \o [i \in 1..Len(class.members) |-> class.members[i].value]

IsNotWarnLine(entry) == ~IsWarnLine(entry)

\* C18: with warnings enabled, the diagnostics of every member are comment
\* lines right after its declaration, and those of the constructor and the
\* members of a class and of the whole-module exports declaration are
\* comment lines as well; with warnings disabled the text has no such line
\* and is otherwise the text written with warnings enabled.
C18_WarningsEmitted ==
    (status = "formatted" /\ ~Threw(output)) =>
        IF options.warnings
        THEN /\ \A i \in 1..Len(items) :
                   \A d \in TopLevelDeclarations(dotted(items[i].key)[1]) :
                      WarnedAfter(output.text, EndOfDeclaration(output.text, d),
                                  items[i].value.errors)
             /\ \A i \in 1..Len(items) :
                   items[i].value.type = "class" =>
                      \A k \in 1..Len(ClassParts(items[i].value)) :
                         WarnedSomewhere(output.text, ClassParts(items[i].value)[k].errors)
             /\ ~IsNull(exports) => WarnedSomewhere(output.text, exports.errors)
        ELSE /\ \A i \in 1..Len(output.text) : ~IsWarnLine(output.text[i])
             /\ output.text =
                   SelectSeq(format(modules, [colors |-> FALSE, warnings |-> TRUE]).text,
                             IsNotWarnLine)

\* the diagnostics of the members themselves are comment lines right after
\* their declarations when warnings are enabled; when disabled, the text is
\* the one written with warnings enabled, without those lines
C18_MemberWarningsEmitted ==
    (status = "formatted" /\ ~Threw(output)) =>
        IF options.warnings
        THEN \A i \in 1..Len(items) :
                /\ Cardinality(TopLevelDeclarations(dotted(items[i].key)[1])) = 1
                /\ \A d \in TopLevelDeclarations(dotted(items[i].key)[1]) :
                      WarnedAfter(output.text, EndOfDeclaration(output.text, d),
                                  items[i].value.errors)
        ELSE /\ \A i \in 1..Len(output.text) : ~IsWarnLine(output.text[i])
             /\ output.text =
                   SelectSeq(format(modules, [colors |-> FALSE, warnings |-> TRUE]).text,
                             IsNotWarnLine)

\* C19: a name keeps the position it was registered at (what is registered
\* later comes after it, whatever replaces its declaration), and format
\* declares the members in that order.
C19_EmissionOrder ==
    [][ /\ Len(items') >= Len(items)
        /\ \A i \in 1..Len(items) : items'[i].key = items[i].key
        /\ status' = "formatted" =>
              /\ \A i, j \in 1..Len(items') :
                    i < j =>
                       \A d \in DeclarationsIn(output'.text, dotted(items'[i].key)[1]) :
                          \A e \in DeclarationsIn(output'.text, dotted(items'[j].key)[1]) :
                             d < e
              /\ ~Threw(output') =>
                    \A i \in 1..Len(items') :
                       DeclarationsIn(output'.text, dotted(items'[i].key)[1]) # {}
      ]_vars

\* C19 witness: `export var f, b = function (x) {}` registers f, then b; the
\* later `function f(x) {}` replaces f, which is still emitted before b
C19_Witness ==
    /\ status = "formatted"
    /\ ~Threw(output)
    /\ pos = 2
    /\ node.type = "FunctionDeclaration"
    /\ Keys(items) = << <<"f">>, <<"b">> >>
    /\ Get(items, <<"f">>).type = "function"
    /\ \A d \in TopLevelDeclarations("f") : \A e \in TopLevelDeclarations("b") : d < e
    /\ TopLevelDeclarations("f") # {}
    /\ TopLevelDeclarations("b") # {}

\* what a call of parseCode starts from, in a process that has called nothing
fresh ==
    [items |-> <<>>, exports |-> Null, globalTypes |-> builtinTypes, errors |-> <<>>,
     actualPath |-> <<>>, callStack |-> <<>>, thrown |-> NoError, ret |-> Null]

\* what the closures hold when the next iteration starts
carried(ctx) == [ctx EXCEPT !.callStack = <<>>, !.ret = Null]

\* the loop over program.body, from its first statement
RECURSIVE loop(_, _)
loop(ctx, statements) ==
    IF Threw(ctx) \/ statements = <<>> THEN ctx
    ELSE loop(iteration(carried(ctx), Head(statements)), Tail(statements))

\* what the pipeline gives for a source, whatever the process did before:
\* the exception of parseCode, or the tree and what format makes of it
outcomeOf(after, option) ==
    IF Threw(after)
    THEN [error |-> after.thrown, items |-> after.items, exports |-> after.exports,
          output |-> [thrown |-> NoError, text |-> <<>>]]
    ELSE [error |-> NoError,
          items |-> sweep(after.items, Keys(after.items), after.globalTypes),
          exports |-> after.exports,
          output |-> format([name |-> moduleName,
                             module |-> [items |-> sweep(after.items, Keys(after.items),
                                                         after.globalTypes),
                                         exports |-> after.exports]], option)]

pipeline(statements, option) == outcomeOf(loop(fresh, statements), option)

\* C20: whatever the process ran before, a call starts from nothing but the
\* built-in type names and an empty path stack, and when the pipeline has
\* ended (parseCode threw, or format was called) its result is the one the
\* same source, module name and options give in a process that ran nothing.
C20_DeterminismAndIsolation ==
    /\ (status = "parsing" /\ pos = 0) =>
          /\ globalTypes = builtinTypes
          /\ actualPath = <<>>
          /\ items = <<>>
          /\ IsNull(exports)
    /\ status = "aborted" =>
          [error |-> error, items |-> items, exports |-> exports, output |-> output]
              = pipeline(program, [colors |-> FALSE, warnings |-> TRUE])
    /\ status = "formatted" =>
          [error |-> error, items |-> items, exports |-> exports, output |-> output]
              = pipeline(program, options)

\* C20 witness: the call before defined NumberLike; in this call `function g`
\* uses the name without defining it, and its parameter is swept to `any`
C20_Witness ==
    /\ run > 1
    /\ \E i \in 1..Len(retained) : retained[i] = "NumberLike"
    /\ status = "formatted"
    /\ Len(program) = 1
    /\ Keys(items) = << <<"g">> >>
    /\ Get(items, <<"g">>).params[1].types = << AnyType >>
    /\ Get(items, <<"g">>).errors # <<>>
    /\ \E i \in 1..Len(output.text) : IsWarnLine(output.text[i])

\* the pieces of a template string
Pieces(text) == { text[i] : i \in 1..Len(text) }

\* the entries of a text, inside the block of a top-level declaration, that
\* give the field n the type t
FieldsIn(text, n, t) ==
    { i \in 1..Len(text) :
        /\ text[i].op \in {"write", "writeLine"}
        /\ Depth(text, i) = 2
        /\ n \in Pieces(text[i].text)
        /\ t \in Pieces(text[i].text) }

\* C21: when the whole module is an object literal of string and number
\* literals, the text format writes holds, inside one exported shape, one
\* field per property of the literal, typed `string` or `number` after its
\* value.
C21_ObjectShape ==
    ( /\ status = "formatted"
      /\ ~IsNull(exports)
      /\ exports.type = "object"
      /\ \A k \in 1..Len(exports.members) : exports.members[k].value.type = "constant" ) =>
        /\ ~Threw(output)
        /\ \A k \in 1..Len(exports.members) :
              Cardinality(FieldsIn(output.text, exports.members[k].key,
                                   guestType(exports.members[k].value.value))) = 1

\* C22: formatType renders a list of Types as their namespace-qualified
\* names, in list order, with ` | ` between them, and an empty list as `void`.
C22_TypeRendering ==
    stage = "formatted" =>
        /\ matched = <<>> => rendered = << "void" >>
        /\ matched # <<>> =>
              /\ Cardinality({ i \in 1..Len(rendered) : rendered[i] = " | " }) = Len(matched) - 1
              /\ \A i \in 1..Len(matched) :
                    /\ matched[i].name \in Pieces(rendered)
                    /\ matched[i].namespace # null => matched[i].namespace \in Pieces(rendered)

\* formatType renders a list of Types as their names alone, in list order,
\* with ` | ` between them
C22_NamesRendered ==
    stage = "formatted" =>
        rendered = join([i \in 1..Len(matched) |-> << matched[i].name >>], " | ")

\* the tags of the productions of a type expression that are neither a
\* union nor a name, left to right
RECURSIVE Unsupported(_)
Unsupported(type) ==
    IF type.type = "UnionType"
    THEN Flatten([i \in 1..Len(type.elements) |-> Unsupported(type.elements[i])])
    ELSE IF type.type = "NameExpression" THEN <<>>
    ELSE << type.type >>

\* C23: a type expression that holds a production other than a union or a
\* name, at the root or inside unions, makes parseJsDocType throw the
\* unsupported-type-grammar error with the tag of that production (the
\* leftmost one); no name comes out of it and nothing is matched.
C23_UnsupportedGrammarFails ==
    (stage # "documented" /\ Unsupported(tree) # <<>>) =>
        /\ stage = "thrown"
        /\ typeNames.thrown = UnsupportedTypeGrammar(Unsupported(tree)[1])
        /\ typeNames.names = <<>>
        /\ matched = <<>>
        /\ rendered = <<>>

\* C23 witness: an optional type after a name, inside a union inside a union
C23_Witness ==
    /\ stage = "thrown"
    /\ NestingOf(tree) = 2
    /\ tree.elements[1].type = "UnionType"
    /\ Len(tree.elements[1].elements) = 2
    /\ tree.elements[1].elements[1].type = "NameExpression"
    /\ tree.elements[1].elements[2].type = "OptionalType"
    /\ typeNames.thrown = UnsupportedTypeGrammar("OptionalType")

\* C24: for a type expression made of unions and names only, parseJsDocType
\* returns the names of its leaves from left to right, nested unions
\* flattened and duplicates kept.
C24_UnionFlattened ==
    (stage # "documented" /\ Unsupported(tree) = <<>>) =>
        /\ stage # "thrown"
        /\ typeNames.thrown = NoError
        /\ typeNames.names = LeafNames(tree)

\* C24 witness: (number | Array) | number, a nested union with a name twice
C24_Witness ==
    /\ stage = "parsed"
    /\ NestingOf(tree) = 2
    /\ Len(tree.elements) = 2
    /\ tree.elements[1].type = "UnionType"
    /\ Len(tree.elements[1].elements) = 2
    /\ typeNames.names = << <<"number">>, <<"Array">>, <<"number">> >>

\* the parameter of a function declaration that has the name n
ParamNamed(fn, n) == fn.params[CHOOSE k \in 1..Len(fn.params) : fn.params[k].name = n]

\* C25: matchType makes one Type of each documented name, in order: `ns:Name`
\* gives {ns, Name}, a name without namespace gets namespace null, and a name
\* of the alias table becomes its equivalent (`Array` becomes `any[]`); the
\* tree parseCode returns and the text format writes still carry it.
C25_AliasCarried ==
    /\ stage \in {"matched", "formatted"} =>
          /\ Len(matched) = Len(typeNames.names)
          /\ \A i \in 1..Len(matched) : matched[i] = DocumentedType(typeNames.names[i])
    /\ ( /\ status \in {"returned", "formatted"}
         /\ pos = 1
         /\ Built # <<>> ) =>
          \A j \in 1..Len(AttachedTags("param")) :
             LET tag == AttachedTags("param")[j]
             IN  ( /\ tag.type.type = "NameExpression"
                   /\ Has(typeMapping, Last(tag.type.name))
                   /\ \E k \in 1..Len(Built[1].fn.params) : Built[1].fn.params[k].name = tag.name ) =>
                     /\ ParamNamed(Get(items, Built[1].key), tag.name).types
                           = << DocumentedType(tag.type.name) >>
                     /\ (status = "formatted" /\ ~Threw(output)) =>
                           \E i \in 1..Len(output.text) :
                              Get(typeMapping, Last(tag.type.name)) \in Pieces(output.text[i].text)

\* matchType makes one Type of each documented name, in order: the namespace
\* before the separator or null, the name rewritten by the alias table
C25_MatchType ==
    stage \in {"matched", "formatted"} =>
        /\ Len(matched) = Len(typeNames.names)
        /\ \A i \in 1..Len(matched) : matched[i] = DocumentedType(typeNames.names[i])

\* right after the statement of a function, a parameter documented with a
\* name of the alias table has the equivalent as its type
C25_AliasBuilt ==
    ( /\ status = "parsing"
      /\ pos = 1
      /\ Built # <<>> ) =>
        \A j \in 1..Len(AttachedTags("param")) :
           LET tag == AttachedTags("param")[j]
           IN  ( /\ tag.type.type = "NameExpression"
                 /\ Has(typeMapping, Last(tag.type.name))
                 /\ \E k \in 1..Len(Built[1].fn.params) : Built[1].fn.params[k].name = tag.name ) =>
                   ParamNamed(Get(items, Built[1].key), tag.name).types
                       = << DocumentedType(tag.type.name) >>

\* a qualifier chain: identifiers joined by member accesses
RECURSIVE IsChain(_)
IsChain(nd) ==
    \/ nd.type = "Identifier"
    \/ nd.type = "MemberExpression" /\ IsChain(nd.object) /\ IsChain(nd.property)

\* the segments of a qualifier chain
RECURSIVE ChainOf(_)
ChainOf(nd) ==
    IF nd.type = "Identifier" THEN << nd.name >> ELSE ChainOf(nd.object) \o ChainOf(nd.property)

\* the statement nd assigns to a qualifier chain that is neither
\* module.exports, nor a member of exports or module.exports, nor a member of
\* the prototype of a Function or Class member of the map `members`
IsOtherAssignment(nd, members) ==
    /\ ~IsNull(nd)
    /\ nd.type = "ExpressionStatement"
    /\ nd.expression.type = "AssignmentExpression"
    /\ nd.expression.left.type = "MemberExpression"
    /\ IsChain(nd.expression.left)
    /\ LET object == ChainOf(nd.expression.left.object)
           property == ChainOf(nd.expression.left.property)
       IN  /\ ~(object = <<"module">> /\ property = <<"exports">>)
           /\ object # <<"exports">>
           /\ object # <<"module", "exports">>
           /\ ~( /\ Len(object) >= 2
                 /\ Last(object) = "prototype"
                 /\ Has(members, Front(object))
                 /\ Get(members, Front(object)).type \in {"function", "class"} )

\* C26: an assignment to any other qualifier chain is ignored: the pass goes
\* on, and the member map (the exported flags and the diagnostics of the
\* members with it), the exports slot, the diagnostics of the module and the
\* recognized-type set are as they were.
C26_OtherAssignmentIgnored ==
    [][ ( /\ pos' = pos + 1
          /\ IsOtherAssignment(node', items)
          /\ leadOf(node') = <<>> ) =>
          /\ status' = "parsing"
          /\ error' = NoError
          /\ items' = items
          /\ exports' = exports
          /\ moduleErrors' = moduleErrors
          /\ globalTypes' = globalTypes
      ]_vars

\* C26 witness: `f.version = 1` after `function f(x) {}`: the pass goes on
C26_Witness ==
    /\ pos = 2
    /\ status = "parsing"
    /\ IsOtherAssignment(node, items)
    /\ ChainOf(node.expression.left) = <<"f", "version">>
    /\ Keys(items) = << <<"f">> >>
    /\ Get(items, <<"f">>).type = "function"

\* the member names of a member map
NamesOf(map) == { map[i].key : i \in 1..Len(map) }

\* C27: no step of the pass removes a member name from the member map (a
\* statement may add names and replace the declaration under a name), and
\* the validation sweep leaves the set of member names as it found it.
C27_MembersNeverRemoved ==
    [][ /\ pos' = pos + 1 => NamesOf(items) \subseteq NamesOf(items')
        /\ IsSweep => /\ NamesOf(items') = NamesOf(items)
                      /\ Len(items') = Len(items)
      ]_vars

\* C27 witness: `export var f, b = function (x) {}` registered f before b;
\* the later `function f(x) {}` replaced the declaration under f, both names
\* are still there, and the sweep has run
C27_Witness ==
    /\ status = "returned"
    /\ pos = 2
    /\ node.type = "FunctionDeclaration"
    /\ node.id.name = "f"
    /\ Keys(items) = << <<"f">>, <<"b">> >>
    /\ NamesOf(items) = { <<"f">>, <<"b">> }
    /\ Get(items, <<"f">>).type = "function"

\* C28: the first `<name>.prototype.<member> = <rhs>` on a name that holds a
\* Function leaves under that name a Class with the exported flag, the
\* description and the diagnostics the Function had.
C28_PromotionPreserves ==
    [][ ( /\ status' = "parsing"
          /\ pos' = pos + 1
          /\ IsPrototypeAssignment(node')
          /\ Has(items, << node'.expression.left.object.object.name >>)
          /\ Get(items, << node'.expression.left.object.object.name >>).type = "function" ) =>
        LET before == Get(items, << node'.expression.left.object.object.name >>)
            after == Get(items', << node'.expression.left.object.object.name >>)
        IN  /\ after.type = "class"
            /\ after.exported = before.exported
            /\ after.description = before.description
            /\ Len(after.errors) >= Len(before.errors)
            /\ SubSeq(after.errors, 1, Len(before.errors)) = before.errors
      ]_vars

\* the promotion keeps what the Function had on the constructor of the Class,
\* and the Class itself starts unexported, with no description or diagnostic
C28_PromotionKeepsOnCtor ==
    [][ ( /\ status' = "parsing"
          /\ pos' = pos + 1
          /\ IsPrototypeAssignment(node')
          /\ Has(items, << node'.expression.left.object.object.name >>)
          /\ Get(items, << node'.expression.left.object.object.name >>).type = "function" ) =>
        LET before == Get(items, << node'.expression.left.object.object.name >>)
            after == Get(items', << node'.expression.left.object.object.name >>)
        IN  /\ after.type = "class"
            /\ after.ctor = before
            /\ ~after.exported
            /\ after.description = undefined
            /\ after.errors = <<>>
      ]_vars

\* the names the @typedef tags of a source declare, wherever they stand
TypedefNames(source) ==
    UNION { { UnattachedTypedefs(source[i])[j].name :
                j \in 1..Len(UnattachedTypedefs(source[i])) } : i \in 1..Len(source) }

\* the @param tags of the comment attached to a function declaration that
\* name one of its parameters and give it a single name without namespace
NamedParamTags(nd) ==
    IF IsNull(commentsOf(nd)) THEN <<>>
    ELSE SelectSeq(TagsTitled(commentsOf(nd), "param"),
                   LAMBDA tag : /\ tag.type.type = "NameExpression"
                                /\ Len(tag.type.name) = 1
                                /\ \E k \in 1..Len(nd.params) : nd.params[k].name = tag.name)

\* C29: once the pass and the sweep are over, a parameter of a Function
\* member documented with a name that some @typedef of the source declares,
\* in a statement before or after the function's, still has that type, and
\* the member has no diagnostic about it.
C29_TypedefPositionIndependent ==
    status \in {"returned", "formatted"} =>
        \A i \in 1..Len(program) :
            ( /\ program[i].type = "FunctionDeclaration"
              /\ Has(items, << program[i].id.name >>)
              /\ Get(items, << program[i].id.name >>).type = "function" ) =>
            \A j \in 1..Len(NamedParamTags(program[i])) :
                LET tag == NamedParamTags(program[i])[j]
                    fn == Get(items, << program[i].id.name >>)
                IN  tag.type.name[1] \in TypedefNames(program) =>
                       /\ ParamNamed(fn, tag.name).types = << DocumentedType(tag.type.name) >>
                       /\ \A m \in 1..Len(fn.errors) :
                              ~NamesParameter(fn.errors[m].message, tag.name)

\* C29 witness: `function g(x) {}` with `@param {NumberLike} x` stands first,
\* the comment that declares NumberLike stands before the later `function f`,
\* and g's parameter is NumberLike after the sweep
C29_Witness ==
    /\ status = "returned"
    /\ Len(program) = 2
    /\ program[1].type = "FunctionDeclaration"
    /\ program[1].id.name = "g"
    /\ UnattachedTypedefs(program[1]) = <<>>
    /\ UnattachedTypedefs(program[2]) # <<>>
    /\ Keys(items) = << <<"g">>, <<"NumberLike">>, <<"f">> >>
    /\ Get(items, <<"g">>).params[1].types = << DocumentedType(<<"NumberLike">>) >>
    /\ Get(items, <<"g">>).errors = <<>>

\* the names of the members of a map that are marked exported
ExportedNames(map) == { map[i].key : i \in { k \in 1..Len(map) : map[k].value.exported } }

\* the entries of a map that alias a name the map has no member for
UnresolvedAliases(map) ==
    { i \in 1..Len(map) : /\ map[i].value.type = "identifier"
                          /\ ~Has(map, << map[i].value.localName >>) }

\* C30: the sweep stores, for an unresolved alias that was marked exported,
\* a placeholder that is marked exported, and the set of exported member
\* names is the same after the sweep as before it.
C30_PlaceholderStaysExported ==
    [][ IsSweep =>
          /\ \A i \in UnresolvedAliases(items) :
                 items[i].value.exported => items'[i].value.exported
          /\ ExportedNames(items') = ExportedNames(items)
      ]_vars

\* the sweep stores `new ConstDeclaration({})` for every unresolved alias: a
\* constant that is not marked exported, whatever the alias was
C30_PlaceholderUnexported ==
    [][ IsSweep =>
          /\ \A i \in UnresolvedAliases(items) :
                 /\ items'[i].key = items[i].key
                 /\ items'[i].value = ConstDeclaration(EmptyObject)
                 /\ ~items'[i].value.exported
          /\ ExportedNames(items') =
                 ExportedNames(items) \ { items[i].key : i \in UnresolvedAliases(items) }
      ]_vars

====
